---- MODULE Spec2Model ----
(***************************************************************************)
(* Model of the pulse-upload edge function                                 *)
(* (supabase/functions/pulse-upload/index.ts): cell normalisation, header  *)
(* classification, dataset parsing, multi-file combination and KPI         *)
(* resolution, and the request handler that drives them.                   *)
(*                                                                         *)
(* Text is a TLA+ string (TLC evaluates Len, SubSeq and \o on strings).    *)
(* A JavaScript number is a record [t, n, d]: t = "fin" is the rational    *)
(* n/d in lowest terms with d > 0, t = "inf" / "ninf" / "nan" are the      *)
(* non-finite doubles, t = "null" is null and t = "na" is the string       *)
(* 'N/A' that formatNumber returns.  Finite arithmetic is exact (binary    *)
(* rounding and overflow of doubles are not modelled).                     *)
(***************************************************************************)
EXTENDS Integers, Sequences, FiniteSets, TLC

VARIABLES
    pc,              \* position of the run: see each specification
    requests,        \* concurrency specification: what each request in flight holds
                     \* of its own; storage and reports are what they share
    sheetRows,       \* header specification: the rows readRowsFromBuffer returned
    headerRow,       \* header specification: what detectHeaderRow returned, from 1
    heap,            \* combination specification: the objects of the files and of
                     \* combineDatasets, each under its identity
    sheet,           \* single-file specifications: [headers, dataRows] handed to parseDataset
    parsed,          \* single-file specifications: the ParsedFileData parseDataset returned
    incomingFiles,   \* handler: the request's files (indices into FileCatalog)
    fileIdx,         \* handler: number of files the per-file loop has completed
    parsedDatasets,  \* handler: DatasetWithStorage[] (line 691)
    storage,         \* handler: storage keys written to the pulse-data bucket
    filesRead,       \* handler: calls of readRowsFromBuffer made (line 699)
    aiCall,          \* handler: how lines 947-992 went, "none" before they run
    resolved,        \* handler: the values computed by lines 742-868
    analysis,        \* handler: the narrative result (lines 941-992)
    reports,         \* handler: records inserted into pulse_reports
    response         \* handler: status of the HTTP response, 0 while running

vars == <<pc, requests, sheetRows, headerRow, heap, sheet,
          parsed, incomingFiles, fileIdx, parsedDatasets, storage,
          filesRead, aiCall, resolved, analysis, reports, response>>

-----------------------------------------------------------------------------
(* Bounds of the model *)

\* columns of a header row in SpecClassify
MaxCols == 3
\* files of one upload request in Spec
MaxFiles == 2
\* data rows of a sheet in SpecRows
MaxRows == 2
\* rows of a generated sheet either side of MAX_SAMPLE_ROWS
MaxOver == 2
\* rows of a sheet drawn freely in SpecHeader
MaxHeaderRows == 3

-----------------------------------------------------------------------------
(* Text *)

Min(a, b) == IF a < b THEN a ELSE b

\* String.prototype.slice on positions counted from 1, both ends included:
\* the part of s that lies in a..b
Slice(s, a, b) ==
    LET from == IF a < 1 THEN 1 ELSE a
        to == Min(b, Len(s))
    IN IF from > to THEN "" ELSE SubSeq(s, from, to)

\* s.charAt(i - 1): "" outside the string
CharAt(s, i) == Slice(s, i, i)

\* String.prototype.includes / a literal inside a RegExp
StartsAt(s, lit, i) ==
    /\ i >= 1
    /\ i + Len(lit) - 1 <= Len(s)
    /\ Slice(s, i, i + Len(lit) - 1) = lit

Includes(s, lit) == \E i \in 1..(Len(s) + 1) : StartsAt(s, lit, i)

UpperChars == "ABCDEFGHIJKLMNOPQRSTUVWXYZ"
LowerChars == "abcdefghijklmnopqrstuvwxyz"
DigitChars == "0123456789"

IndexIn(alphabet, c) ==
    IF \E i \in 1..Len(alphabet) : CharAt(alphabet, i) = c
    THEN CHOOSE i \in 1..Len(alphabet) : CharAt(alphabet, i) = c
    ELSE 0

\* String.prototype.toLowerCase, one character
LowerChar(c) ==
    IF IndexIn(UpperChars, c) > 0 THEN CharAt(LowerChars, IndexIn(UpperChars, c)) ELSE c

RECURSIVE toLowerCase(_)
toLowerCase(s) ==
    IF Len(s) = 0 THEN "" ELSE LowerChar(Head(s)) \o toLowerCase(Tail(s))

\* \s of the RegExps (the sheets of the model hold blanks and tabs)
IsSpace(c) == c = " " \/ c = "\t"

\* \w of the RegExps
IsWordChar(c) ==
    \/ IndexIn(LowerChars, c) > 0
    \/ IndexIn(UpperChars, c) > 0
    \/ IndexIn(DigitChars, c) > 0
    \/ c = "_"

\* String.prototype.trim
RECURSIVE TrimLeft(_)
TrimLeft(s) ==
    IF Len(s) > 0 /\ IsSpace(Head(s)) THEN TrimLeft(Tail(s)) ELSE s

RECURSIVE TrimRight(_)
TrimRight(s) ==
    IF Len(s) > 0 /\ IsSpace(CharAt(s, Len(s)))
    THEN TrimRight(Slice(s, 1, Len(s) - 1))
    ELSE s

Trim(s) == TrimRight(TrimLeft(s))

\* text.split(sep) for a separator of one character; line is the part being read
RECURSIVE Split(_, _, _)
Split(text, sep, line) ==
    IF Len(text) = 0 THEN <<line>>
    ELSE IF Head(text) = sep THEN <<line>> \o Split(Tail(text), sep, "")
    ELSE Split(Tail(text), sep, line \o Head(text))

\* .replace(/[\s_]+/g, ' '): every run of blanks and underscores becomes one blank
RECURSIVE CollapseRuns(_, _)
CollapseRuns(s, inRun) ==
    IF Len(s) = 0 THEN ""
    ELSE IF IsSpace(Head(s)) \/ Head(s) = "_"
         THEN (IF inRun THEN "" ELSE " ") \o CollapseRuns(Tail(s), TRUE)
         ELSE Head(s) \o CollapseRuns(Tail(s), FALSE)

-----------------------------------------------------------------------------
(* JavaScript numbers *)

Abs(i) == IF i < 0 THEN -i ELSE i

RECURSIVE Gcd(_, _)
Gcd(a, b) == IF b = 0 THEN a ELSE Gcd(b, a % b)

\* the finite number n/d (d # 0), in lowest terms with a positive denominator
Fin(n, d) ==
    LET g == Gcd(Abs(n), Abs(d))
        sg == IF d < 0 THEN -1 ELSE 1
    IN [t |-> "fin", n |-> (sg * n) \div g, d |-> (sg * d) \div g]

Int2Num(i) == [t |-> "fin", n |-> i, d |-> 1]
Zero == Int2Num(0)
PosInf == [t |-> "inf", n |-> 0, d |-> 1]
NegInf == [t |-> "ninf", n |-> 0, d |-> 1]
NaN == [t |-> "nan", n |-> 0, d |-> 1]
Null == [t |-> "null", n |-> 0, d |-> 1]
NA == [t |-> "na", n |-> 0, d |-> 1]

IsNull(x) == x.t = "null"
IsNaN(x) == x.t = "nan"
\* Number.isFinite on a value that is a number
IsFinite(x) == x.t = "fin"

\* sign of a non-NaN number: -1, 0 or 1
Sign(x) ==
    CASE x.t = "inf" -> 1
      [] x.t = "ninf" -> -1
      [] OTHER -> IF x.n > 0 THEN 1 ELSE IF x.n < 0 THEN -1 ELSE 0

SignedInf(sg) == IF sg > 0 THEN PosInf ELSE NegInf

\* a + b
JsAdd(a, b) ==
    CASE IsNaN(a) \/ IsNaN(b) -> NaN
      [] IsFinite(a) /\ IsFinite(b) -> Fin(a.n * b.d + b.n * a.d, a.d * b.d)
      [] IsFinite(a) -> b
      [] IsFinite(b) -> a
      [] OTHER -> IF a.t = b.t THEN a ELSE NaN

\* a * b
JsMul(a, b) ==
    CASE IsNaN(a) \/ IsNaN(b) -> NaN
      [] IsFinite(a) /\ IsFinite(b) -> Fin(a.n * b.n, a.d * b.d)
      [] OTHER -> IF Sign(a) * Sign(b) = 0 THEN NaN ELSE SignedInf(Sign(a) * Sign(b))

\* a / b
JsDiv(a, b) ==
    CASE IsNaN(a) \/ IsNaN(b) -> NaN
      [] IsFinite(a) /\ IsFinite(b) ->
            IF b.n = 0
            THEN (IF a.n = 0 THEN NaN ELSE SignedInf(Sign(a)))
            ELSE Fin(a.n * b.d, a.d * b.n)
      [] IsFinite(a) -> Zero
      [] IsFinite(b) -> SignedInf(Sign(a) * (IF Sign(b) < 0 THEN -1 ELSE 1))
      [] OTHER -> NaN

\* a > 0 and a <= 0 (both false of NaN)
JsGtZero(a) == ~IsNaN(a) /\ Sign(a) > 0
JsLeZero(a) == ~IsNaN(a) /\ Sign(a) <= 0
\* a !== 0
JsNotZero(a) == ~(IsFinite(a) /\ a.n = 0)

\* Math.round(x) of the rational n/d, d > 0: floor(x + 1/2)
RoundRat(n, d) == (2 * n + d) \div (2 * d)

\* Math.pow(10, k)
RECURSIVE TenTo(_)
TenTo(k) == IF k = 0 THEN 1 ELSE 10 * TenTo(k - 1)

formatNumber(value, decimals) ==
    IF IsNull(value) \/ ~IsFinite(value) THEN NA
    ELSE Fin(RoundRat(value.n * TenTo(decimals), value.d), TenTo(decimals))

formatCount(value) ==
    IF IsNull(value) \/ ~IsFinite(value) THEN NA
    ELSE Int2Num(RoundRat(value.n, value.d))

\* Number(x) of a formatNumber result: Number('N/A') is NaN
NumberOf(x) == IF x.t = "na" THEN NaN ELSE x

RECURSIVE SumNums(_)
SumNums(values) ==
    IF Len(values) = 0 THEN Zero
    ELSE JsAdd(SumNums(SubSeq(values, 1, Len(values) - 1)), values[Len(values)])

average(values) ==
    IF Len(values) = 0 THEN Null
    ELSE JsDiv(SumNums(values), Int2Num(Len(values)))

-----------------------------------------------------------------------------
(* Cells.  readRowsFromBuffer calls sheet_to_json with raw: true and without *)
(* cellDates, so a cell is empty, a native number or a string.             *)

NullCell == [t |-> "null", num |-> Null, s |-> ""]
NumCell(x) == [t |-> "num", num |-> x, s |-> ""]
N(i) == NumCell(Int2Num(i))
S(x) == [t |-> "str", num |-> Null, s |-> x]

\* the null of a string | null result: normalizeTextCell and normalizeDateCell
\* never return the empty string, which stands for null
NoText == ""

RECURSIVE NatToString(_)
NatToString(i) ==
    IF i < 10 THEN CharAt(DigitChars, i + 1)
    ELSE NatToString(i \div 10) \o CharAt(DigitChars, (i % 10) + 1)

\* String(x) of a number (the native numbers of the model's sheets are integers)
NumToString(x) ==
    CASE x.t = "nan" -> "NaN"
      [] x.t = "inf" -> "Infinity"
      [] x.t = "ninf" -> "-Infinity"
      [] OTHER -> IF x.n < 0 THEN "-" \o NatToString(-x.n) ELSE NatToString(x.n)

\* String(value ?? '')
CellToString(cell) ==
    CASE cell.t = "null" -> ""
      [] cell.t = "num" -> NumToString(cell.num)
      [] OTHER -> cell.s

normalizeHeader(header) == Trim(CollapseRuns(toLowerCase(CellToString(header)), FALSE))

normalizeTextCell(value) ==
    IF value.t = "null" THEN NoText ELSE Trim(CellToString(value))

IsDigit(c) == IndexIn(DigitChars, c) > 0

RECURSIVE DigitPrefix(_)
DigitPrefix(s) ==
    IF Len(s) > 0 /\ IsDigit(Head(s)) THEN Head(s) \o DigitPrefix(Tail(s)) ELSE ""

RECURSIVE DigitsValue(_)
DigitsValue(s) ==
    IF Len(s) = 0 THEN 0
    ELSE 10 * DigitsValue(Slice(s, 1, Len(s) - 1)) + (IndexIn(DigitChars, CharAt(s, Len(s))) - 1)

AllDigits(s) == Len(s) > 0 /\ DigitPrefix(s) = s

Pad2(s) == IF Len(s) = 1 THEN "0" \o s ELSE s

\* new Date(str).toISOString().slice(0, 10), or "" for an Invalid Date.  The
\* forms modelled: YYYY-MM-DD, YYYY-MM-DDThh:mm... (the runtime's zone is UTC)
\* and M/D/YYYY.  The date columns of the model's sheets hold these forms, null
\* or text without a digit, which is no date to the parser.
DateParse(str) ==
    LET isoDay == /\ Len(str) >= 10
                  /\ AllDigits(Slice(str, 1, 4))
                  /\ CharAt(str, 5) = "-"
                  /\ AllDigits(Slice(str, 6, 7))
                  /\ CharAt(str, 8) = "-"
                  /\ AllDigits(Slice(str, 9, 10))
                  /\ DigitsValue(Slice(str, 6, 7)) \in 1..12
                  /\ DigitsValue(Slice(str, 9, 10)) \in 1..28
        parts == Split(str, "/", "")
        usDay == /\ Len(parts) = 3
                 /\ Len(parts[1]) \in 1..2 /\ AllDigits(parts[1])
                 /\ Len(parts[2]) \in 1..2 /\ AllDigits(parts[2])
                 /\ Len(parts[3]) = 4 /\ AllDigits(parts[3])
                 /\ DigitsValue(parts[1]) \in 1..12
                 /\ DigitsValue(parts[2]) \in 1..28
    IN IF isoDay /\ (Len(str) = 10 \/ CharAt(str, 11) = "T") THEN Slice(str, 1, 10)
       ELSE IF usDay THEN parts[3] \o "-" \o Pad2(parts[1]) \o "-" \o Pad2(parts[2])
       ELSE ""

normalizeDateCell(value) ==
    IF value.t = "null" THEN NoText
    ELSE LET str == Trim(CellToString(value))
         IN IF str = "" THEN NoText
            ELSE IF DateParse(str) # "" THEN DateParse(str)
            ELSE str

\* .replace(/[$,%\s]/g, '')
RECURSIVE StripSymbols(_)
StripSymbols(s) ==
    IF Len(s) = 0 THEN ""
    ELSE IF Head(s) \in {"$", ",", "%"} \/ IsSpace(Head(s))
         THEN StripSymbols(Tail(s))
         ELSE Head(s) \o StripSymbols(Tail(s))

\* parseFloat: an optional sign, then Infinity or digits with an optional
\* fraction; the longest such prefix, NaN when there is none (no exponents in
\* the model's sheets)
DecimalValue(whole, frac) ==
    Fin(DigitsValue(whole) * TenTo(Len(frac)) + DigitsValue(frac), TenTo(Len(frac)))

UnsignedFloat(body, whole) ==
    LET rest == Slice(body, Len(whole) + 1, Len(body))
        frac == IF Len(rest) > 0 /\ Head(rest) = "." THEN DigitPrefix(Tail(rest)) ELSE ""
    IN IF StartsAt(body, "Infinity", 1) THEN PosInf
       ELSE IF Len(whole) = 0 /\ Len(frac) = 0 THEN NaN
       ELSE DecimalValue(whole, frac)

parseFloat(str) ==
    LET signed == Len(str) > 0 /\ Head(str) \in {"-", "+"}
        body == IF signed THEN Tail(str) ELSE str
        mag == UnsignedFloat(body, DigitPrefix(body))
    IN IF Len(str) > 0 /\ Head(str) = "-" THEN JsMul(mag, Int2Num(-1)) ELSE mag

\* lines 262-263
ParseCleaned(cleaned, multiplier) ==
    LET num == parseFloat(cleaned)
    IN IF IsNaN(num) THEN Null ELSE JsMul(num, Int2Num(multiplier))

parseNumeric(val) ==
    IF val.t = "null" THEN Null
    ELSE IF val.t = "num" THEN (IF IsNaN(val.num) THEN Null ELSE val.num)
    ELSE LET cleaned == StripSymbols(Trim(val.s))
         IN IF Trim(val.s) = "" THEN Null
            ELSE IF /\ Len(cleaned) > 0
                    /\ Head(cleaned) = "("
                    /\ CharAt(cleaned, Len(cleaned)) = ")"
                 THEN ParseCleaned(Slice(cleaned, 2, Len(cleaned) - 1), -1)
                 ELSE ParseCleaned(cleaned, 1)

isMeaningfulRow(row) ==
    \E i \in 1..Len(row) :
        CASE row[i].t = "null" -> FALSE
          [] row[i].t = "num" -> ~IsNaN(row[i].num)
          [] OTHER -> Len(Trim(row[i].s)) > 0

-----------------------------------------------------------------------------
(* Header classification *)

CanonicalKeys ==
    {"net_sales", "guests", "tips", "labor_cost", "labor_hours", "labor_percent",
     "date", "category", "item"}

\* canonical: null
NoKey == "none"

\* A RegExp of HEADER_RULES is a record [kind, parts]:
\*   "ws"    parts[1]\s*parts[2]\s*...      (one part: a plain literal)
\*   "dot"   parts[1].*parts[2]
\*   "bdot"  \bparts[1]\b.*parts[2]
\*   "dotb"  parts[1].*\bparts[2]\b
\*   "word"  \bparts[1]\b
\* An optional last letter (tips?) matches exactly where the word without it
\* does, and an alternation is written as one RegExp per alternative.
Ws(parts) == [kind |-> "ws", parts |-> parts]
Lit(x) == Ws(<<x>>)
Dot(a, b) == [kind |-> "dot", parts |-> <<a, b>>]
BDot(a, b) == [kind |-> "bdot", parts |-> <<a, b>>]
DotB(a, b) == [kind |-> "dotb", parts |-> <<a, b>>]
Word(a) == [kind |-> "word", parts |-> <<a>>]

HEADER_RULES == <<
    [key |-> "net_sales", allowGross |-> FALSE,
     patterns |-> << Ws(<<"net", "sales">>), Ws(<<"sales", "(net)">>), Ws(<<"sales", "net">>),
                     Ws(<<"net", "revenue">>), BDot("net", "sales"), DotB("sales", "net") >>],
    [key |-> "tips", allowGross |-> FALSE,
     patterns |-> << Lit("tip"), Lit("gratuity"), Ws(<<"service", "charge">>),
                     Ws(<<"auto", "grat">>), Ws(<<"suggested", "gratuity">>) >>],
    [key |-> "guests", allowGross |-> FALSE,
     patterns |-> << Lit("guest"), Lit("cover"), Lit("pax"), Lit("diner"), Lit("heads") >>],
    [key |-> "labor_cost", allowGross |-> FALSE,
     patterns |-> << Dot("labor", "cost"), Dot("labor", "expense"), Ws(<<"labor", "total">>),
                     Lit("payroll"), Lit("wages"), Lit("salary"), Lit("compensation") >>],
    [key |-> "labor_hours", allowGross |-> FALSE,
     patterns |-> << Dot("labor", "hours"), Ws(<<"hours", "worked">>), Ws(<<"staff", "hours">>),
                     Ws(<<"hours", "labor">>), Ws(<<"scheduled", "hours">>) >>],
    [key |-> "labor_percent", allowGross |-> FALSE,
     patterns |-> << Dot("labor", "%"), Ws(<<"labor", "percent">>), Ws(<<"labor", "percentage">>),
                     Ws(<<"labor", "cost", "%">>), Ws(<<"labor", "%", "of", "sales">>) >>],
    [key |-> "date", allowGross |-> FALSE,
     patterns |-> << Ws(<<"business", "date">>), Ws(<<"service", "date">>), Lit("date"),
                     Word("day"), Ws(<<"trans", "date">>), Ws(<<"posted", "date">>) >>],
    [key |-> "category", allowGross |-> FALSE,
     patterns |-> << Lit("category"), Lit("dept"), Lit("department"), Lit("segment"),
                     Lit("family"), Lit("class") >>],
    [key |-> "item", allowGross |-> FALSE,
     patterns |-> << Lit("item"), Ws(<<"menu", "item">>), Lit("product"), Lit("description"),
                     Lit("plu"), Lit("sku") >>] >>

\* the parts, separated by \s*, match s from position i on
RECURSIVE MatchWsAt(_, _, _)
MatchWsAt(s, parts, i) ==
    /\ StartsAt(s, parts[1], i)
    /\ \/ Len(parts) = 1
       \/ \E k \in 0..(Len(s) - i) :
             /\ \A j \in 0..(k - 1) : IsSpace(CharAt(s, i + Len(parts[1]) + j))
             /\ MatchWsAt(s, Tail(parts), i + Len(parts[1]) + k)

\* \b before position p of s (p = Len(s) + 1: at the end)
WordBoundary(s, p) ==
    LET before == p >= 2 /\ IsWordChar(CharAt(s, p - 1))
        after == p <= Len(s) /\ IsWordChar(CharAt(s, p))
    IN before # after

WordAt(s, w, i) ==
    StartsAt(s, w, i) /\ WordBoundary(s, i) /\ WordBoundary(s, i + Len(w))

\* pattern.test(s)
RegExpTest(pattern, s) ==
    LET a == pattern.parts[1]
        b == pattern.parts[Len(pattern.parts)]
        pos == 1..(Len(s) + 1)
    IN CASE pattern.kind = "ws" -> \E i \in pos : MatchWsAt(s, pattern.parts, i)
         [] pattern.kind = "dot" ->
               \E i \in pos : StartsAt(s, a, i) /\ \E j \in pos : j >= i + Len(a) /\ StartsAt(s, b, j)
         [] pattern.kind = "bdot" ->
               \E i \in pos : WordAt(s, a, i) /\ \E j \in pos : j >= i + Len(a) /\ StartsAt(s, b, j)
         [] pattern.kind = "dotb" ->
               \E i \in pos : StartsAt(s, a, i) /\ \E j \in pos : j >= i + Len(a) /\ WordAt(s, b, j)
         [] OTHER -> \E i \in pos : WordAt(s, a, i)

\* rule.patterns.some((pattern) => pattern.test(normalized))
RuleMatches(rule, normalized) ==
    \E k \in 1..Len(rule.patterns) : RegExpTest(rule.patterns[k], normalized)

\* index is the column's position, counted from 1 here and from 0 in the code
buildColumnMeta(headers) ==
    [i \in 1..Len(headers) |->
        [original |-> CellToString(headers[i]),
         normalized |-> normalizeHeader(headers[i]),
         index |-> i,
         isGross |-> Includes(normalizeHeader(headers[i]), "gross"),
         canonical |-> NoKey]]

\* ApplyRule as it would be were line 316 missing: gross columns take keys too
ApplyRuleAllowingGross(meta, rule) ==
    [i \in 1..Len(meta) |->
        IF meta[i].canonical # NoKey THEN meta[i]
        ELSE IF RuleMatches(rule, meta[i].normalized)
             THEN [meta[i] EXCEPT !.canonical = rule.key]
             ELSE meta[i]]

\* one turn of the outer loop of assignCanonicalKeys: the inner loop over the
\* columns has no break, so every unassigned column the rule accepts takes the key
ApplyRule(meta, rule) ==
    [i \in 1..Len(meta) |->
        IF meta[i].canonical # NoKey THEN meta[i]
        ELSE IF ~rule.allowGross /\ meta[i].isGross THEN meta[i]
        ELSE IF RuleMatches(rule, meta[i].normalized)
             THEN [meta[i] EXCEPT !.canonical = rule.key]
             ELSE meta[i]]

RECURSIVE ApplyRules(_, _)
ApplyRules(meta, k) ==
    IF k = 0 THEN meta ELSE ApplyRule(ApplyRules(meta, k - 1), HEADER_RULES[k])

\* the predicate of meta.find in the fallback
IsFallbackCandidate(column) ==
    /\ ~(column.isGross \/ column.canonical # NoKey)
    /\ Includes(column.normalized, "sales")
    /\ ~\E w \in {"tax", "discount", "void", "refund", "credit"} : Includes(column.normalized, w)

\* lines 324-336 as they would be without the hasNetSales test of line 325
ApplyFallbackAlways(meta) ==
    LET found == {i \in 1..Len(meta) : IsFallbackCandidate(meta[i])}
        first == CHOOSE i \in found : \A j \in found : i <= j
    IN IF found = {} THEN meta
       ELSE [meta EXCEPT ![first].canonical = "net_sales"]

\* lines 324-336: the fallback for net_sales
ApplyFallback(meta) ==
    LET hasNetSales == \E i \in 1..Len(meta) : meta[i].canonical = "net_sales"
        found == {i \in 1..Len(meta) : IsFallbackCandidate(meta[i])}
        first == CHOOSE i \in found : \A j \in found : i <= j
    IN IF hasNetSales \/ found = {} THEN meta
       ELSE [meta EXCEPT ![first].canonical = "net_sales"]

assignCanonicalKeys(meta) == ApplyFallback(ApplyRules(meta, Len(HEADER_RULES)))

\* detectDatasetType as it would be with the category test (line 353) ahead of
\* the labor and item tests
detectDatasetTypeCategoryFirst(presentKeys) ==
    IF {"net_sales", "category"} \subseteq presentKeys THEN "category_rollup"
    ELSE IF presentKeys \cap {"labor_cost", "labor_hours", "labor_percent"} # {} THEN "labor"
    ELSE IF {"net_sales", "item"} \subseteq presentKeys THEN "item_sales"
    ELSE IF {"net_sales", "date"} \subseteq presentKeys THEN "daily_sales"
    ELSE IF "net_sales" \in presentKeys THEN "general_sales"
    ELSE IF "tips" \in presentKeys THEN "tips"
    ELSE "unknown"

detectDatasetType(presentKeys) ==
    LET hasNet == "net_sales" \in presentKeys
        hasCategory == "category" \in presentKeys
        hasItem == "item" \in presentKeys
        hasDate == "date" \in presentKeys
        hasLabor == \/ "labor_cost" \in presentKeys
                    \/ "labor_hours" \in presentKeys
                    \/ "labor_percent" \in presentKeys
        hasTips == "tips" \in presentKeys
    IN IF hasLabor /\ ~hasNet THEN "labor"
       ELSE IF hasLabor /\ hasNet THEN "labor"
       ELSE IF hasNet /\ hasItem THEN "item_sales"
       ELSE IF hasNet /\ hasCategory THEN "category_rollup"
       ELSE IF hasNet /\ hasDate THEN "daily_sales"
       ELSE IF hasTips /\ ~hasNet THEN "tips"
       ELSE IF hasNet THEN "general_sales"
       ELSE IF hasTips THEN "tips"
       ELSE "unknown"

-----------------------------------------------------------------------------
(* Dataset parsing *)

MAX_SAMPLE_ROWS == 50

\* A Map is the sequence of its entries in insertion order, each a record with
\* a key field.
MapHas(map, key) == \E i \in 1..Len(map) : map[i].key = key
MapIndex(map, key) == CHOOSE i \in 1..Len(map) : map[i].key = key
\* map.set(key, entry) as it would be were every entry appended
MapSetAppending(map, entry) == Append(map, entry)
\* map.set(key, entry): in place for a key the map has, appended otherwise
MapSet(map, entry) ==
    IF MapHas(map, entry.key) THEN [map EXCEPT ![MapIndex(map, entry.key)] = entry]
    ELSE Append(map, entry)

\* categories.get(key) as it would be were the sum so far forgotten
CategoryGetFresh(map, key) == Zero
\* categories.get(key) ?? 0
CategoryGet(map, key) == IF MapHas(map, key) THEN map[MapIndex(map, key)].value ELSE Zero
\* daily.get(key) ?? { netSales: 0, guests: 0, tips: 0 }
DailyGet(map, key) ==
    IF MapHas(map, key) THEN map[MapIndex(map, key)]
    ELSE [key |-> key, netSales |-> Zero, guests |-> Zero, tips |-> Zero]

\* x += y when y !== null
AddIfPresent(x, y) == IF IsNull(y) THEN x ELSE JsAdd(x, y)

\* lines 369-377: the first column of each canonical key
FirstColumnOf(headerMeta, key) ==
    CHOOSE i \in 1..Len(headerMeta) :
        /\ headerMeta[i].canonical = key
        /\ \A j \in 1..(i - 1) : headerMeta[j].canonical # key

PresentKeys(headerMeta) ==
    {headerMeta[i].canonical : i \in 1..Len(headerMeta)} \ {NoKey}

\* indexByKey: 0 stands for undefined
IndexByKey(headerMeta) ==
    [key \in CanonicalKeys |->
        IF key \in PresentKeys(headerMeta)
        THEN headerMeta[FirstColumnOf(headerMeta, key)].index
        ELSE 0]

\* row[idx]: undefined past the end of a short row
CellOf(row, idx) == IF idx <= Len(row) THEN row[idx] ELSE NullCell

\* lines 397-423 and 457-467: the NormalizedRow of a row
NormalizeRow(indexByKey, row) ==
    LET getNumeric(key) ==
            IF indexByKey[key] = 0 THEN Null ELSE parseNumeric(CellOf(row, indexByKey[key]))
        getText(key) ==
            IF indexByKey[key] = 0 THEN NoText ELSE normalizeTextCell(CellOf(row, indexByKey[key]))
        getDate(key) ==
            IF indexByKey[key] = 0 THEN NoText ELSE normalizeDateCell(CellOf(row, indexByKey[key]))
    IN [key \in CanonicalKeys |->
            IF key = "date" THEN getDate(key)
            ELSE IF key \in {"category", "item"} THEN getText(key)
            ELSE getNumeric(key)]

EmptyMetrics ==
    [netSales |-> Zero, guests |-> Zero, tips |-> Zero, laborCost |-> Zero,
     laborHours |-> Zero, laborPercentSamples |-> <<>>, categories |-> <<>>, daily |-> <<>>]

\* lines 425-455: one row added to the metrics
AccumulateRow(metrics, r) ==
    [netSales |-> AddIfPresent(metrics.netSales, r.net_sales),
     guests |-> AddIfPresent(metrics.guests, r.guests),
     tips |-> AddIfPresent(metrics.tips, r.tips),
     laborCost |-> AddIfPresent(metrics.laborCost, r.labor_cost),
     laborHours |-> AddIfPresent(metrics.laborHours, r.labor_hours),
     laborPercentSamples |->
        IF IsNull(r.labor_percent) THEN metrics.laborPercentSamples
        ELSE Append(metrics.laborPercentSamples, r.labor_percent),
     categories |->
        IF r.category # NoText /\ ~IsNull(r.net_sales)
        THEN MapSet(metrics.categories,
                    [key |-> r.category,
                     value |-> JsAdd(CategoryGet(metrics.categories, r.category), r.net_sales)])
        ELSE metrics.categories,
     daily |->
        IF r.date # NoText
        THEN LET current == DailyGet(metrics.daily, r.date)
             IN MapSet(metrics.daily,
                       [key |-> r.date,
                        netSales |-> AddIfPresent(current.netSales, r.net_sales),
                        guests |-> AddIfPresent(current.guests, r.guests),
                        tips |-> AddIfPresent(current.tips, r.tips)])
        ELSE metrics.daily]

\* line 469: Object.values(normalizedRow).some((value) => value !== null)
HasAnyValue(r) ==
    \/ r.date # NoText \/ r.category # NoText \/ r.item # NoText
    \/ ~IsNull(r.net_sales) \/ ~IsNull(r.guests) \/ ~IsNull(r.tips)
    \/ ~IsNull(r.labor_cost) \/ ~IsNull(r.labor_hours) \/ ~IsNull(r.labor_percent)

\* lines 425-472 as they would be without the length test of line 470
ParseRowWithoutCap(before, r) ==
    [metrics |-> AccumulateRow(before.metrics, r),
     normalizedSample |->
        IF HasAnyValue(r)
        THEN Append(before.normalizedSample, r)
        ELSE before.normalizedSample]

\* lines 425-472: a meaningful row added to [metrics, normalizedSample]
ParseRow(before, r) ==
    [metrics |-> AccumulateRow(before.metrics, r),
     normalizedSample |->
        IF HasAnyValue(r) /\ Len(before.normalizedSample) < MAX_SAMPLE_ROWS
        THEN Append(before.normalizedSample, r)
        ELSE before.normalizedSample]

\* the row loop of parseDataset (lines 394-473) over the rows lo..hi in row
\* order, from the metrics and the sample the rows before lo have left. The
\* range is halved, and the first half is evaluated (its sample never holds
\* more rows than were read) before the second is begun, so that a sheet of
\* many rows is evaluated in shallow recursion.
RECURSIVE ParseRows(_, _, _, _, _)
ParseRows(before, indexByKey, dataRows, lo, hi) ==
    IF lo > hi THEN before
    ELSE IF lo = hi
    THEN IF ~isMeaningfulRow(dataRows[lo]) THEN before
         ELSE ParseRow(before, NormalizeRow(indexByKey, dataRows[lo]))
    ELSE LET firstHalf == ParseRows(before, indexByKey, dataRows, lo, (lo + hi) \div 2)
         IN IF Len(firstHalf.normalizedSample) <= Len(dataRows)
            THEN ParseRows(firstHalf, indexByKey, dataRows, (lo + hi) \div 2 + 1, hi)
            ELSE firstHalf

\* lines 475-483, with indexByKey kept beside the returned fields
ParsedFileData(fileName, datasetType, headerMeta, indexByKey, presentKeys, dataRows, rows) ==
    [fileName |-> fileName,
     datasetType |-> datasetType,
     headerMeta |-> headerMeta,
     indexByKey |-> indexByKey,
     rowCount |-> Len(dataRows),
     presentKeys |-> presentKeys,
     normalizedSample |-> rows.normalizedSample,
     metrics |-> rows.metrics]

\* lines 369-473 for the header meta of lines 366-367
ParseColumns(fileName, headerMeta, dataRows) ==
    ParsedFileData(fileName, detectDatasetType(PresentKeys(headerMeta)), headerMeta,
                   IndexByKey(headerMeta), PresentKeys(headerMeta), dataRows,
                   ParseRows([metrics |-> EmptyMetrics, normalizedSample |-> <<>>],
                             IndexByKey(headerMeta), dataRows, 1, Len(dataRows)))

parseDataset(fileName, headers, dataRows) ==
    ParseColumns(fileName, assignCanonicalKeys(buildColumnMeta(headers)), dataRows)

-----------------------------------------------------------------------------
(* Header row detection *)

HEADER_HINTS ==
    <<"sales", "net", "guest", "cover", "tip", "labor", "category", "item", "date",
      "revenue", "hours">>

\* the number of rows detectHeaderRow looks at
HEADER_SCAN_LIMIT == 25

\* HEADER_HINTS.filter((hint) => cell.includes(hint)).length
HintHits(cell) ==
    Cardinality({k \in 1..Len(HEADER_HINTS) : Includes(cell, HEADER_HINTS[k])})

\* the reduce of lines 285-289 over the first k cells of the row
RECURSIVE RowScore(_, _)
RowScore(row, k) ==
    IF k = 0 THEN 0
    ELSE RowScore(row, k - 1)
         + (IF normalizeHeader(row[k]) = "" THEN 0 ELSE HintHits(normalizeHeader(row[k])))

\* the loop of lines 280-295 over the first k rows: [bestIndex, bestScore],
\* bestIndex counted from 1 here and from 0 in the code
RECURSIVE BestHeaderRow(_, _)
BestHeaderRow(rows, k) ==
    IF k = 0 THEN [bestIndex |-> 1, bestScore |-> -1]
    ELSE LET before == BestHeaderRow(rows, k - 1)
             score == RowScore(rows[k], Len(rows[k]))
         IN IF score > before.bestScore
            THEN [bestIndex |-> k, bestScore |-> score]
            ELSE before

detectHeaderRow(rows) == BestHeaderRow(rows, Min(Len(rows), HEADER_SCAN_LIMIT)).bestIndex

-----------------------------------------------------------------------------
(* Multi-file combination *)

RECURSIVE MergeCategories(_, _, _)
\* lines 543-546 over the first k entries of a file's category map
MergeCategories(categories, entries, k) ==
    IF k = 0 THEN categories
    ELSE LET before == MergeCategories(categories, entries, k - 1)
         IN MapSet(before,
                   [key |-> entries[k].key,
                    value |-> JsAdd(CategoryGet(before, entries[k].key), entries[k].value)])

RECURSIVE MergeDaily(_, _, _)
\* lines 548-554 over the first k entries of a file's daily map
MergeDaily(daily, entries, k) ==
    IF k = 0 THEN daily
    ELSE LET before == MergeDaily(daily, entries, k - 1)
             current == DailyGet(before, entries[k].key)
         IN MapSet(before,
                   [key |-> entries[k].key,
                    netSales |-> JsAdd(current.netSales, entries[k].netSales),
                    guests |-> JsAdd(current.guests, entries[k].guests),
                    tips |-> JsAdd(current.tips, entries[k].tips)])

\* lines 556-559 as they would be were no row pushed
TakeSampleDroppingRows(sampleRows, normalizedSample) == sampleRows

\* lines 556-559: rows pushed until the sample holds MAX_SAMPLE_ROWS
TakeSample(sampleRows, normalizedSample) ==
    sampleRows \o SubSeq(normalizedSample, 1,
                         Min(Len(normalizedSample),
                             IF Len(sampleRows) >= MAX_SAMPLE_ROWS THEN 0
                             ELSE MAX_SAMPLE_ROWS - Len(sampleRows)))

\* the loop of combineDatasets (lines 534-560) over the first k datasets
RECURSIVE CombineLoop(_, _)
CombineLoop(datasets, k) ==
    IF k = 0
    THEN [metrics |-> EmptyMetrics, keys |-> {}, sampleRows |-> <<>>]
    ELSE LET before == CombineLoop(datasets, k - 1)
             dataset == datasets[k]
         IN [metrics |->
                [netSales |-> JsAdd(before.metrics.netSales, dataset.metrics.netSales),
                 guests |-> JsAdd(before.metrics.guests, dataset.metrics.guests),
                 tips |-> JsAdd(before.metrics.tips, dataset.metrics.tips),
                 laborCost |-> JsAdd(before.metrics.laborCost, dataset.metrics.laborCost),
                 laborHours |-> JsAdd(before.metrics.laborHours, dataset.metrics.laborHours),
                 laborPercentSamples |->
                    before.metrics.laborPercentSamples \o dataset.metrics.laborPercentSamples,
                 categories |->
                    MergeCategories(before.metrics.categories, dataset.metrics.categories,
                                    Len(dataset.metrics.categories)),
                 daily |->
                    MergeDaily(before.metrics.daily, dataset.metrics.daily,
                               Len(dataset.metrics.daily))],
             keys |-> before.keys \cup dataset.presentKeys,
             sampleRows |-> TakeSample(before.sampleRows, dataset.normalizedSample)]

\* files: the positions in parsedDatasets of the group's files
combineDatasets(datasets, files) ==
    LET all == CombineLoop(datasets, Len(datasets))
    IN [key |-> datasets[1].datasetType,
        datasetType |-> datasets[1].datasetType,
        metrics |-> all.metrics,
        keys |-> all.keys,
        files |-> files,
        sampleRows |-> all.sampleRows]

\* lines 742-747: the dataset types in the order of their first file, each with
\* the positions of its files
RECURSIVE GroupByType(_, _)
GroupByType(datasets, k) ==
    IF k = 0 THEN <<>>
    ELSE LET before == GroupByType(datasets, k - 1)
             type == datasets[k].datasetType
         IN IF MapHas(before, type)
            THEN [before EXCEPT ![MapIndex(before, type)].files = Append(@, k)]
            ELSE Append(before, [key |-> type, files |-> <<k>>])

\* lines 749-752: combinedByType, a Map from dataset type to CombinedDataset
CombineGroups(datasets) ==
    LET groupedByType == GroupByType(datasets, Len(datasets))
    IN [g \in 1..Len(groupedByType) |->
           combineDatasets([j \in 1..Len(groupedByType[g].files) |->
                               datasets[groupedByType[g].files[j]]],
                           groupedByType[g].files)]

NoDataset == "none"

\* pickDatasetWithKey: the type of the dataset returned, NoDataset for undefined
RECURSIVE PickFrom(_, _, _, _)
PickFrom(combined, priorities, key, k) ==
    IF k > Len(priorities) THEN NoDataset
    ELSE IF MapHas(combined, priorities[k])
            /\ key \in combined[MapIndex(combined, priorities[k])].keys
         THEN priorities[k]
         ELSE PickFrom(combined, priorities, key, k + 1)

pickDatasetWithKey(combined, priorities, key) == PickFrom(combined, priorities, key, 1)

\* combined.get(type), for a type the map has
DatasetOf(combined, type) == combined[MapIndex(combined, type)]

-----------------------------------------------------------------------------
(* KPI resolution: lines 754-868 of the handler *)

\* the priority lists as they would be in another order or with another group
NetPrioritiesCategoryFirst == <<"category_rollup", "item_sales", "daily_sales", "general_sales">>
TipsPrioritiesWithLabor == <<"labor", "tips", "item_sales", "daily_sales", "general_sales">>
DailyPrioritiesWithCategory == <<"daily_sales", "item_sales", "general_sales", "category_rollup">>

NetPriorities == <<"item_sales", "daily_sales", "category_rollup", "general_sales">>
GuestPriorities == <<"item_sales", "daily_sales", "general_sales">>
TipsPriorities == <<"tips", "item_sales", "daily_sales", "general_sales">>
CategoryPriorities == <<"item_sales", "category_rollup">>
DailyPriorities == <<"daily_sales", "item_sales", "general_sales">>

\* the code units of the characters the model's sheets use, in ascending order
CharOrder ==
    " !#$%&()*+,-./0123456789:;<=>?@ABCDEFGHIJKLMNOPQRSTUVWXYZ[]^_abcdefghijklmnopqrstuvwxyz{|}~"

\* a < b of two strings
RECURSIVE StringLess(_, _)
StringLess(a, b) ==
    IF Len(b) = 0 THEN FALSE
    ELSE IF Len(a) = 0 THEN TRUE
    ELSE IF Head(a) = Head(b) THEN StringLess(Tail(a), Tail(b))
    ELSE IndexIn(CharOrder, Head(a)) < IndexIn(CharOrder, Head(b))

\* the comparator as it would be for an ascending sort, a[1] - b[1]
CategoryBeforeAscending(a, b) == JsGtZero(JsAdd(b.value, JsMul(a.value, Int2Num(-1))))

\* (a, b) => b[1] - a[1] is negative: a goes first (never for a NaN difference)
CategoryBefore(a, b) == JsGtZero(JsAdd(a.value, JsMul(b.value, Int2Num(-1))))

\* the comparator of lines 810-814 as it would be for a descending sort
DailyBeforeDescending(a, b) == StringLess(b.key, a.key)
\* the comparator of lines 810-814 returns -1
DailyBefore(a, b) == StringLess(a.key, b.key)

\* the comparator of the sort puts x before y
Before(order, x, y) ==
    IF order = "category" THEN CategoryBefore(x, y) ELSE DailyBefore(x, y)

\* Array.prototype.sort is stable: entry x is put after every entry it does not
\* have to precede
RECURSIVE InsertSorted(_, _, _)
InsertSorted(sorted, x, order) ==
    IF Len(sorted) = 0 THEN <<x>>
    ELSE IF Before(order, x, sorted[Len(sorted)])
         THEN Append(InsertSorted(SubSeq(sorted, 1, Len(sorted) - 1), x, order),
                     sorted[Len(sorted)])
         ELSE Append(sorted, x)

RECURSIVE StableSort(_, _, _)
StableSort(entries, k, order) ==
    IF k = 0 THEN <<>>
    ELSE InsertSorted(StableSort(entries, k - 1, order), entries[k], order)

\* averagePPA as it would be were the guests of the guests KPI divided into
\* the net sales, whichever group supplies them
AveragePPAAcrossGroups(combined, net) ==
    LET guest == pickDatasetWithKey(combined, GuestPriorities, "guests")
        source == IF net # NoDataset /\ "guests" \in DatasetOf(combined, net).keys
                  THEN net ELSE guest
    IN IF net # NoDataset /\ source # NoDataset
          /\ JsGtZero(DatasetOf(combined, source).metrics.guests)
       THEN JsDiv(DatasetOf(combined, net).metrics.netSales,
                  DatasetOf(combined, source).metrics.guests)
       ELSE Null

\* lines 787-789
AveragePPA(combined, net) ==
    IF net # NoDataset
       /\ "guests" \in DatasetOf(combined, net).keys
       /\ JsGtZero(DatasetOf(combined, net).metrics.guests)
    THEN JsDiv(DatasetOf(combined, net).metrics.netSales,
               DatasetOf(combined, net).metrics.guests)
    ELSE Null

\* totalGuests as it would be were only guestDataset read
TotalGuestsByPriorityOnly(combined, net, guest) ==
    IF guest # NoDataset THEN DatasetOf(combined, guest).metrics.guests ELSE Null

\* lines 782-786
TotalGuests(combined, net, guest) ==
    IF net # NoDataset /\ "guests" \in DatasetOf(combined, net).keys
    THEN DatasetOf(combined, net).metrics.guests
    ELSE IF guest # NoDataset /\ "guests" \in DatasetOf(combined, guest).keys
         THEN DatasetOf(combined, guest).metrics.guests
         ELSE Null

\* lines 792-794
TipPercent(totalTips, totalNetSales) ==
    IF ~IsNull(totalTips) /\ ~IsNull(totalNetSales) /\ JsNotZero(totalNetSales)
    THEN JsMul(JsDiv(totalTips, totalNetSales), Int2Num(100))
    ELSE Null

\* laborPercentNumber as it would be with || in place of ?? at line 802: an
\* average of 0 gives way to the cost-based figure
LaborPercentFalsyAverage(combined, totalNetSales) ==
    LET hasLabor == MapHas(combined, "labor")
        laborDataset == DatasetOf(combined, "labor")
        fromSamples ==
            IF hasLabor /\ Len(laborDataset.metrics.laborPercentSamples) # 0
            THEN average(laborDataset.metrics.laborPercentSamples)
            ELSE Null
        fromCost ==
            IF hasLabor /\ "labor_cost" \in laborDataset.keys
               /\ ~IsNull(totalNetSales) /\ JsNotZero(totalNetSales)
            THEN JsMul(JsDiv(laborDataset.metrics.laborCost, totalNetSales), Int2Num(100))
            ELSE Null
    IN IF ~IsNull(fromSamples) /\ JsNotZero(fromSamples) THEN fromSamples ELSE fromCost

\* lines 796-802
LaborPercent(combined, totalNetSales) ==
    LET hasLabor == MapHas(combined, "labor")
        laborDataset == DatasetOf(combined, "labor")
        fromSamples ==
            IF hasLabor /\ Len(laborDataset.metrics.laborPercentSamples) # 0
            THEN average(laborDataset.metrics.laborPercentSamples)
            ELSE Null
        fromCost ==
            IF hasLabor /\ "labor_cost" \in laborDataset.keys
               /\ ~IsNull(totalNetSales) /\ JsNotZero(totalNetSales)
            THEN JsMul(JsDiv(laborDataset.metrics.laborCost, totalNetSales), Int2Num(100))
            ELSE Null
    IN IF ~IsNull(fromSamples) THEN fromSamples ELSE fromCost

\* lines 822-828: the PPA trend of the sorted daily entries
PpaTrend(dailyEntries) ==
    LET HasGuests(e) == ~JsLeZero(e.guests)
        kept == SelectSeq(dailyEntries, HasGuests)
    IN [i \in 1..Len(kept) |->
           [date |-> kept[i].key,
            ppa |-> NumberOf(formatNumber(JsDiv(kept[i].netSales, kept[i].guests), 2))]]

\* line 781
TotalNetSales(combined, net) ==
    IF net # NoDataset THEN DatasetOf(combined, net).metrics.netSales ELSE Null

\* line 791
TotalTips(combined, tips) ==
    IF tips # NoDataset THEN DatasetOf(combined, tips).metrics.tips ELSE Null

\* lines 804-868: the chart series, the availability flags and the kpis object
KpiReport(combinedByType, picked, totals, categoryEntries, dailyEntries) ==
    LET hasLabor == MapHas(combinedByType, "labor")
        laborDataset == DatasetOf(combinedByType, "labor")
        dailySalesData ==
            [i \in 1..Len(dailyEntries) |->
                [date |-> dailyEntries[i].key,
                 sales |-> NumberOf(formatNumber(dailyEntries[i].netSales, 2))]]
        ppaTrendData == PpaTrend(dailyEntries)
        categoryMixData ==
            [i \in 1..Len(categoryEntries) |->
                [category |-> categoryEntries[i].key,
                 sales |-> NumberOf(formatNumber(categoryEntries[i].value, 2))]]
        availableKpis ==
            [netSales |-> ~IsNull(totals.totalNetSales),
             guests |-> ~IsNull(totals.totalGuests),
             ppa |-> ~IsNull(totals.averagePPA),
             tipPercent |-> ~IsNull(totals.tipPercentNumber),
             laborPercent |-> ~IsNull(totals.laborPercentNumber),
             tips |-> ~IsNull(totals.totalTips),
             laborCost |-> IF hasLabor THEN "labor_cost" \in laborDataset.keys ELSE FALSE,
             laborHours |-> IF hasLabor THEN "labor_hours" \in laborDataset.keys ELSE FALSE]
    IN [combinedByType |-> combinedByType,
        netDataset |-> picked.netDataset,
        guestDataset |-> picked.guestDataset,
        tipsDataset |-> picked.tipsDataset,
        categoryDataset |-> picked.categoryDataset,
        dailyDataset |-> picked.dailyDataset,
        averagePPA |-> totals.averagePPA,
        tipPercentNumber |-> totals.tipPercentNumber,
        laborPercentNumber |-> totals.laborPercentNumber,
        dailySalesData |-> dailySalesData,
        ppaTrendData |-> ppaTrendData,
        categoryMixData |-> categoryMixData,
        availableCharts |->
            [dailySales |-> Len(dailySalesData) > 0,
             ppaTrend |-> Len(ppaTrendData) > 0,
             categoryMix |-> Len(categoryMixData) > 0],
        kpis |->
            [netSales |-> formatNumber(totals.totalNetSales, 2),
             guests |-> formatCount(totals.totalGuests),
             ppa |-> formatNumber(totals.averagePPA, 2),
             tipPercent |-> formatNumber(totals.tipPercentNumber, 2),
             laborPercent |-> formatNumber(totals.laborPercentNumber, 2),
             available |-> availableKpis,
             totals |->
                [netSales |-> totals.totalNetSales,
                 guests |-> totals.totalGuests,
                 tips |-> totals.totalTips,
                 laborCost |-> IF hasLabor THEN laborDataset.metrics.laborCost ELSE Null,
                 laborHours |-> IF hasLabor THEN laborDataset.metrics.laborHours ELSE Null]]]

\* lines 781-820 for the datasets picked by lines 754-779
ResolvePicked(combinedByType, picked) ==
    LET NonZero(e) == JsNotZero(e.value)
        categories == DatasetOf(combinedByType, picked.categoryDataset).metrics.categories
        daily == DatasetOf(combinedByType, picked.dailyDataset).metrics.daily
    IN KpiReport(combinedByType, picked,
                 [totalNetSales |-> TotalNetSales(combinedByType, picked.netDataset),
                  totalGuests |->
                     TotalGuests(combinedByType, picked.netDataset, picked.guestDataset),
                  averagePPA |-> AveragePPA(combinedByType, picked.netDataset),
                  totalTips |-> TotalTips(combinedByType, picked.tipsDataset),
                  tipPercentNumber |->
                     TipPercent(TotalTips(combinedByType, picked.tipsDataset),
                                TotalNetSales(combinedByType, picked.netDataset)),
                  laborPercentNumber |->
                     LaborPercent(combinedByType,
                                  TotalNetSales(combinedByType, picked.netDataset))],
                 IF picked.categoryDataset # NoDataset
                 THEN StableSort(SelectSeq(categories, NonZero),
                                 Len(SelectSeq(categories, NonZero)), "category")
                 ELSE <<>>,
                 IF picked.dailyDataset # NoDataset
                 THEN StableSort(daily, Len(daily), "daily")
                 ELSE <<>>)

\* lines 754-779: the dataset each KPI and chart reads
PickDatasets(combinedByType) ==
    ResolvePicked(combinedByType,
        [netDataset |-> pickDatasetWithKey(combinedByType, NetPriorities, "net_sales"),
         guestDataset |-> pickDatasetWithKey(combinedByType, GuestPriorities, "guests"),
         tipsDataset |-> pickDatasetWithKey(combinedByType, TipsPriorities, "tips"),
         categoryDataset |->
            pickDatasetWithKey(combinedByType, CategoryPriorities, "category"),
         dailyDataset |-> pickDatasetWithKey(combinedByType, DailyPriorities, "date")])

\* what lines 742-868 compute from parsedDatasets
ResolveKpis(datasets) == PickDatasets(CombineGroups(datasets))

-----------------------------------------------------------------------------
(* Single-file specifications: parseDataset applied to one sheet *)

\* header texts of SpecClassify
HeaderVocabulary ==
    {"Net Sales", "Gross Sales", "Sales", "Sales Tax", "Total_Net  SALES",
     "Gross Net Sales", "Tips", "Tip Date", "Guests", "Category"}

HeaderRows ==
    UNION {[1..n -> {S(h) : h \in HeaderVocabulary}] : n \in 1..MaxCols}

\* a cell for the column of a header: a day under a date header, else number n
CellFor(header, n) == IF Includes(header.s, "Date") THEN S("2024-11-01") ELSE N(n)

\* one data row: 10 in the first column, 20 in the second, ...
NumberedRow(headers) == [i \in 1..Len(headers) |-> CellFor(headers[i], 10 * i)]

ClassifySheets ==
    {[headers |-> h, dataRows |-> <<NumberedRow(h)>>] : h \in HeaderRows}

\* the usual header of each canonical key, in a fixed column order
KeyOrder ==
    <<"net_sales", "guests", "tips", "labor_cost", "labor_hours", "labor_percent",
      "date", "category", "item">>

UsualHeader(key) ==
    CASE key = "net_sales" -> "Net Sales"
      [] key = "guests" -> "Guests"
      [] key = "tips" -> "Tips"
      [] key = "labor_cost" -> "Labor Cost"
      [] key = "labor_hours" -> "Labor Hours"
      [] key = "labor_percent" -> "Labor %"
      [] key = "date" -> "Date"
      [] key = "category" -> "Category"
      [] OTHER -> "Item"

\* the header row holding the usual header of every key of keys
RECURSIVE HeadersOfKeys(_, _)
HeadersOfKeys(keys, k) ==
    IF k = 0 THEN <<>>
    ELSE IF KeyOrder[k] \in keys
         THEN Append(HeadersOfKeys(keys, k - 1), S(UsualHeader(KeyOrder[k])))
         ELSE HeadersOfKeys(keys, k - 1)

\* two row sets for a header row, with different values
TypeRows(headers, variant) ==
    IF variant = 1 THEN <<NumberedRow(headers)>>
    ELSE <<[i \in 1..Len(headers) |-> CellFor(headers[i], 0)],
           [i \in 1..Len(headers) |-> S("n/a")]>>

\* two sheets per key set, with different row values
TypeSheets ==
    {[headers |-> headers, dataRows |-> TypeRows(headers, variant)] :
        headers \in {HeadersOfKeys(keys, Len(KeyOrder)) : keys \in (SUBSET CanonicalKeys) \ {{}}}
                       \cup {<<S("Notes")>>},
        variant \in {1, 2}}

NoParsed == parseDataset("", <<>>, <<>>)
NoSheet == [headers |-> <<>>, dataRows |-> <<>>]

\* no sheet of rows is waiting for its header row
NoRows ==
    /\ sheetRows = <<>>
    /\ headerRow = 0

\* no object is followed by its identity
NoHeap == heap = <<>>

\* one request alone, held by the handler's own variables
NoRequests == requests = <<>>

HandlerIdle ==
    /\ incomingFiles = <<>>
    /\ fileIdx = 0
    /\ parsedDatasets = <<>>
    /\ storage = {}
    /\ filesRead = 0
    /\ aiCall = "none"
    /\ resolved = <<>>
    /\ analysis = <<>>
    /\ reports = <<>>
    /\ response = 0

InitClassify ==
    /\ pc = "sheet"
    /\ sheet \in ClassifySheets
    /\ parsed = NoParsed
    /\ HandlerIdle
    /\ NoRows
    /\ NoHeap
    /\ NoRequests

InitType ==
    /\ pc = "sheet"
    /\ sheet \in TypeSheets
    /\ parsed = NoParsed
    /\ HandlerIdle
    /\ NoRows
    /\ NoHeap
    /\ NoRequests

\* parseDataset(file.name, headers, dataRows)
ParseSheet ==
    /\ pc = "sheet"
    /\ parsed' = parseDataset("sheet.csv", sheet.headers, sheet.dataRows)
    /\ pc' = "parsed"
    /\ UNCHANGED <<requests, sheetRows, headerRow, heap, sheet,
                   incomingFiles, fileIdx, parsedDatasets, storage, filesRead,
                   aiCall, resolved, analysis, reports, response>>

NextSheet == ParseSheet

SpecClassify == InitClassify /\ [][NextSheet]_vars
SpecType == InitType /\ [][NextSheet]_vars

-----------------------------------------------------------------------------
(* The upload handler: serve(async (req) => ...), lines 594-1066 *)

\* 10 * 1024 * 1024
MAX_FILE_BYTES == 10485760
\* the longest restaurant name and period accepted
MAX_TEXT_LENGTH == 100

\* a sheet: the header row followed by the data rows
Sheet(headerTexts, dataRows) ==
    <<[i \in 1..Len(headerTexts) |-> S(headerTexts[i])]>> \o dataRows

\* an uploaded File and what the row extraction makes of its bytes:
\* readable = FALSE when XLSX.read throws
File(name, rows) ==
    [name |-> name, size |-> 2048, type |-> "text/csv", readable |-> TRUE, rows |-> rows]

\* the files a request of the model can carry
FileCatalog == <<
    File("items full.csv",
         Sheet(<<"Date", "Item", "Net Sales", "Guests", "Tips">>,
               << <<S("2024-11-01"), S("Burger"), N(200), N(10), N(30)>>,
                  <<S("2024-11-02"), S("Fries"), N(100), N(0), N(0)>>,
                  <<S("2024-11-03"), S("Burger"), N(50), N(5), NullCell>> >>)),
    File("daily.xlsx",
         << <<S("Daily report")>> >>
         \o Sheet(<<"Date", "Net Sales", "Guests">>,
                  << <<S("2024-11-03"), N(50), N(0)>>,
                     <<S("2024-11-01"), N(300), N(12)>>,
                     <<NullCell, NullCell, NullCell>>,
                     <<S("11/1/2024"), S("$1,100.50"), N(4)>> >>)),
    File("daily_zero.csv",
         Sheet(<<"Day", "Sales", "Guest Count", "Tips">>,
               << <<S("2024-11-02"), N(40), N(0), N(5)>>,
                  <<S("Total"), S("(40)"), N(-2), NullCell>> >>)),
    File("daily_inf.csv",
         Sheet(<<"Date", "Net Sales", "Guests">>,
               << <<S("2024-11-01"), S("Infinity"), N(20)>> >>)),
    File("category.csv",
         Sheet(<<"Date", "Category", "Net Sales", "Guests">>,
               << <<S("2024-11-01"), S("Food"), N(500), N(20)>>,
                  <<S("2024-11-02"), S("Beverage"), N(300), N(15)>> >>)),
    File("category_tips.csv",
         Sheet(<<"Category", "Net Sales", "Tips">>,
               << <<S("Food"), N(400), N(60)>>, <<S("Retail"), N(0), NullCell>> >>)),
    File("general.csv",
         Sheet(<<"Gross Sales", "Net Sales", "Guests", "Tips">>,
               << <<N(900), N(800), N(25), N(80)>> >>)),
    File("tips.csv",
         Sheet(<<"Server", "Tips">>, << <<S("Ann"), N(45)>>, <<S("Bob"), S("15")>> >>)),
    File("labor.csv",
         Sheet(<<"Labor Hours", "Labor Cost">>, << <<N(40), N(600)>> >>)),
    File("labor_pct.csv",
         Sheet(<<"Labor %", "Wages">>, << <<S("0%"), N(100)>>, <<N(0), N(50)>> >>)),
    File("labor_net.csv",
         Sheet(<<"Net Sales", "Labor Percent", "Tips", "Guests", "Date">>,
               << <<N(1000), S("30%"), N(50), N(40), S("2024-11-01")>>,
                  <<N(200), N(25), N(10), N(8), S("2024-11-02")>> >>)),
    File("notes.csv",
         Sheet(<<"Notes", "Guests", "Date">>, << <<S("x"), N(9), S("2024-11-01")>> >>)),
    [File("big.xlsx", Sheet(<<"Net Sales">>, << <<N(1)>> >>)) EXCEPT !.size = MAX_FILE_BYTES + 1],
    File("menu.pdf", Sheet(<<"Net Sales">>, << <<N(1)>> >>)),
    [File("broken.xls", <<>>) EXCEPT !.readable = FALSE],
    [File("empty.csv", <<>>) EXCEPT !.type = ""],
    File("blank.csv", << <<>>, <<N(3)>> >>) >>

\* the requests of the model: up to MaxFiles files of the catalog, in any order
Batches == UNION {[1..n -> 1..Len(FileCatalog)] : n \in 0..MaxFiles}

FileOf(k) == FileCatalog[incomingFiles[k]]

EndsWith(s, suffix) == Slice(s, Len(s) - Len(suffix) + 1, Len(s)) = suffix /\ Len(s) >= Len(suffix)

\* .replace(/[^a-zA-Z0-9._-]/g, '_')
RECURSIVE SanitizeFileName(_)
SanitizeFileName(name) ==
    IF Len(name) = 0 THEN ""
    ELSE (IF IsWordChar(Head(name)) \/ Head(name) \in {".", "-"} THEN Head(name) ELSE "_")
         \o SanitizeFileName(Tail(name))

\* the key as it would be without the random UUID
StorageFileNameWithoutUUID(k, name) == [uuid |-> 0, name |-> SanitizeFileName(name)]

\* `${Date.now()}_${crypto.randomUUID()}_${sanitizedFileName}`: the random
\* UUID is fresh for every file; k stands for it
StorageFileName(k, name) == [uuid |-> k, name |-> SanitizeFileName(name)]

NoAnalysis == [summary |-> "", insights |-> <<>>, actions |-> <<>>]
NoResponse == [status |-> 0, error |-> ""]

Respond(status, error) == [status |-> status, error |-> error]

GenericFailure ==
    Respond(500, "Upload processing failed. Please try again or contact support if this persists.")

AllowedTypes == {".csv", ".xlsx", ".xls"}

\* the extension test as it would be were every name accepted
AcceptsAnyExtension(file) == FALSE

IsUnsupported(file) == ~\E ext \in AllowedTypes : EndsWith(toLowerCase(file.name), ext)

\* Array.prototype.find over the request's files: the first position that
\* satisfies Test, 0 for undefined
FirstFile(Test(_)) ==
    IF \E k \in 1..Len(incomingFiles) : Test(FileOf(k))
    THEN CHOOSE k \in 1..Len(incomingFiles) :
            Test(FileOf(k)) /\ \A j \in 1..(k - 1) : ~Test(FileOf(j))
    ELSE 0

Init ==
    /\ pc = "start"
    /\ incomingFiles \in Batches
    /\ fileIdx = 0
    /\ parsedDatasets = <<>>
    /\ storage = {}
    /\ filesRead = 0
    /\ aiCall = "none"
    /\ resolved = ResolveKpis(<<>>)
    /\ analysis = NoAnalysis
    /\ reports = <<>>
    /\ response = NoResponse
    /\ sheet = NoSheet
    /\ parsed = NoParsed
    /\ NoRows
    /\ NoHeap
    /\ NoRequests

\* lines 602-626: the authorization header and supabase.auth.getUser
Authenticate ==
    /\ pc = "start"
    /\ \E auth \in {"missing", "rejected", "valid"} :
          IF auth = "valid"
          THEN pc' = "validate" /\ response' = response
          ELSE /\ pc' = "done"
               /\ response' = Respond(401, IF auth = "missing" THEN "Authentication required"
                                           ELSE "Invalid authentication")
    /\ UNCHANGED <<requests, sheetRows, headerRow, heap, sheet,
                   parsed, incomingFiles, fileIdx, parsedDatasets, storage,
                   filesRead, aiCall, resolved, analysis, reports>>

\* lines 628-689: the form fields and the checks on them
Validate ==
    /\ pc = "validate"
    /\ \E nameLength \in {0, 8, MAX_TEXT_LENGTH + 1}, periodLength \in {0, 7, MAX_TEXT_LENGTH + 1} :
          LET TooBig(file) == file.size > MAX_FILE_BYTES
              invalidFile == FirstFile(TooBig)
              unsupported == FirstFile(IsUnsupported)
              error ==
                  IF nameLength = 0 \/ nameLength > MAX_TEXT_LENGTH THEN "Invalid restaurant name"
                  ELSE IF periodLength # 0 /\ periodLength > MAX_TEXT_LENGTH THEN "Invalid period"
                  ELSE IF Len(incomingFiles) = 0 THEN "At least one file is required"
                  ELSE IF invalidFile # 0
                       THEN FileOf(invalidFile).name \o " exceeds the 10MB size limit"
                  ELSE IF unsupported # 0
                       THEN FileOf(unsupported).name
                            \o " is not a supported format (CSV, XLSX, XLS only)"
                  ELSE ""
          IN IF error = ""
             THEN pc' = "files" /\ response' = response
             ELSE pc' = "done" /\ response' = Respond(400, error)
    /\ UNCHANGED <<requests, sheetRows, headerRow, heap, sheet,
                   parsed, incomingFiles, fileIdx, parsedDatasets, storage,
                   filesRead, aiCall, resolved, analysis, reports>>

\* lines 706-712 for the header row found: "" and the ParsedFileData, or the
\* message of the Error thrown
ParseFrom(file, headerRowIndex) ==
    IF Len(file.rows[headerRowIndex]) = 0
    THEN [error |-> "Unable to determine headers for " \o file.name]
    ELSE [error |-> "",
          parsed |-> parseDataset(file.name, file.rows[headerRowIndex],
                                  SelectSeq(SubSeq(file.rows, headerRowIndex + 1, Len(file.rows)),
                                            isMeaningfulRow))]

\* lines 699-712 for one file
ReadAndParse(file) ==
    IF ~file.readable
    THEN [error |-> "Unable to parse uploaded file. Please ensure it is a valid CSV or Excel file."]
    ELSE IF Len(file.rows) = 0
    THEN [error |-> file.name \o " appears to be empty"]
    ELSE ParseFrom(file, detectHeaderRow(file.rows))

\* what lines 699-712 make of each file of the catalog
ReadCatalog == [k \in 1..Len(FileCatalog) |-> ReadAndParse(FileCatalog[k])]

\* DatasetWithStorage: the fields lines 730-735 add to the ParsedFileData
WithStorage(p, storageFileName, contentType) ==
    [fileName |-> p.fileName, datasetType |-> p.datasetType, headerMeta |-> p.headerMeta,
     indexByKey |-> p.indexByKey, rowCount |-> p.rowCount, presentKeys |-> p.presentKeys,
     normalizedSample |-> p.normalizedSample, metrics |-> p.metrics,
     storageFileName |-> storageFileName, publicUrl |-> storageFileName,
     contentType |-> contentType]

\* lines 699-735 as they would be were a file that cannot be parsed skipped
\* and the loop continued with the next file
StoreFileSkippingUnparsed(file, storageFileName, read, uploadError) ==
    IF read.error # ""
    THEN /\ fileIdx' = fileIdx + 1
         /\ pc' = IF fileIdx + 1 = Len(incomingFiles) THEN "resolve" ELSE "files"
         /\ UNCHANGED <<parsedDatasets, storage, response>>
    ELSE IF uploadError
    THEN /\ pc' = "done"
         /\ response' = GenericFailure
         /\ UNCHANGED <<fileIdx, parsedDatasets, storage>>
    ELSE /\ storage' = storage \cup {storageFileName}
         /\ parsedDatasets' =
               Append(parsedDatasets,
                      WithStorage(read.parsed, storageFileName,
                                  IF file.type = "" THEN "application/octet-stream"
                                  ELSE file.type))
         /\ fileIdx' = fileIdx + 1
         /\ pc' = IF fileIdx + 1 = Len(incomingFiles) THEN "resolve" ELSE "files"
         /\ response' = response

\* lines 699-735 as they would be were the upload of lines 714-719 made
\* before the rows are read
StoreFileBeforeParsing(file, storageFileName, read, uploadError) ==
    IF uploadError
    THEN /\ pc' = "done"
         /\ response' = GenericFailure
         /\ UNCHANGED <<fileIdx, parsedDatasets, storage>>
    ELSE IF read.error # ""
    THEN /\ storage' = storage \cup {storageFileName}
         /\ pc' = "done"
         /\ response' = GenericFailure
         /\ UNCHANGED <<fileIdx, parsedDatasets>>
    ELSE /\ storage' = storage \cup {storageFileName}
         /\ parsedDatasets' =
               Append(parsedDatasets,
                      WithStorage(read.parsed, storageFileName,
                                  IF file.type = "" THEN "application/octet-stream"
                                  ELSE file.type))
         /\ fileIdx' = fileIdx + 1
         /\ pc' = IF fileIdx + 1 = Len(incomingFiles) THEN "resolve" ELSE "files"
         /\ response' = response

\* lines 714-735: the upload of a file read, and the dataset kept
StoreFile(file, storageFileName, read, uploadError) ==
    IF read.error # "" \/ uploadError
    THEN /\ pc' = "done"
         /\ response' = GenericFailure
         /\ UNCHANGED <<fileIdx, parsedDatasets, storage>>
    ELSE /\ storage' = storage \cup {storageFileName}
         /\ parsedDatasets' =
               Append(parsedDatasets,
                      WithStorage(read.parsed, storageFileName,
                                  IF file.type = "" THEN "application/octet-stream"
                                  ELSE file.type))
         /\ fileIdx' = fileIdx + 1
         /\ pc' = IF fileIdx + 1 = Len(incomingFiles) THEN "resolve" ELSE "files"
         /\ response' = response

\* lines 693-736, one turn of the loop: the file is read and parsed, then
\* uploaded; an Error thrown on the way is caught at line 1048
ProcessFile ==
    /\ pc = "files"
    /\ fileIdx < Len(incomingFiles)
    /\ \E uploadError \in BOOLEAN :
          StoreFile(FileOf(fileIdx + 1),
                    StorageFileName(fileIdx + 1, FileOf(fileIdx + 1).name),
                    ReadCatalog[incomingFiles[fileIdx + 1]], uploadError)
    /\ filesRead' = filesRead + 1
    /\ UNCHANGED <<requests, sheetRows, headerRow, heap, sheet,
                   parsed, incomingFiles, aiCall, resolved, analysis, reports>>

\* lines 738-945: grouping, combination and KPI resolution, up to the request
\* to the narrative collaborator
Resolve ==
    /\ pc = "resolve"
    /\ IF Len(parsedDatasets) = 0
       THEN /\ pc' = "done"
            /\ response' = GenericFailure
            /\ UNCHANGED <<resolved, analysis>>
       ELSE /\ resolved' = ResolveKpis(parsedDatasets)
            /\ analysis' = [summary |-> "AI analysis unavailable.",
                            insights |-> <<>>, actions |-> <<>>]
            /\ pc' = "analyze"
            /\ response' = response
    /\ UNCHANGED <<requests, sheetRows, headerRow, heap, sheet,
                   parsed, incomingFiles, fileIdx, parsedDatasets, storage,
                   filesRead, aiCall, reports>>

RECURSIVE JoinLines(_)
\* lines.join(' ')
JoinLines(lines) ==
    IF Len(lines) = 0 THEN ""
    ELSE IF Len(lines) = 1 THEN lines[1]
    ELSE lines[1] \o " " \o JoinLines(Tail(lines))

IsNonEmpty(line) == line # ""
IsBullet(line) == StartsAt(line, "-", 1) \/ StartsAt(line, "*", 1)

\* lines 976-983; the model's completions write the bullet U+2022 as *
ParseCompletion(aiText) ==
    LET split == Split(aiText, "\n", "")
        lines == SelectSeq([i \in 1..Len(split) |-> Trim(split[i])], IsNonEmpty)
        bullets == SelectSeq(lines, IsBullet)
    IN [summary |-> JoinLines(SubSeq(lines, 1, Min(3, Len(lines)))),
        insights |-> SubSeq(bullets, 1, Min(3, Len(bullets))),
        actions |-> SubSeq(bullets, 4, Min(6, Len(bullets)))]

\* what the narrative collaborator can answer with choices[0].message.content
Completions ==
    {"",
     "  \n\n",
     "Sales up.\nLabor high.\n- Food\n* Tips\n  - Trim  \n\n- Push\n- Lunch"}

\* lines 947-992 as they would be without the try / catch of lines 948-991: a
\* failed request reaches the catch of line 1048
AnalyzeWithoutCatch ==
    /\ pc = "analyze"
    /\ \E outcome \in {"no key", "fetch throws", "status not ok", "body is not JSON", "ok"} :
          IF outcome = "no key"
          THEN analysis' = analysis /\ aiCall' = "no key" /\ pc' = "insert" /\ response' = response
          ELSE IF outcome = "ok"
               THEN /\ \E aiText \in Completions : analysis' = ParseCompletion(aiText)
                    /\ aiCall' = "ok" /\ pc' = "insert" /\ response' = response
               ELSE /\ analysis' = analysis /\ aiCall' = "caught"
                    /\ pc' = "done" /\ response' = GenericFailure
    /\ UNCHANGED <<requests, sheetRows, headerRow, heap, sheet,
                   parsed, incomingFiles, fileIdx, parsedDatasets, storage,
                   filesRead, resolved, reports>>

\* lines 947-992: no API key, a failed request, or a completion
Analyze ==
    /\ pc = "analyze"
    /\ \E outcome \in {"no key", "fetch throws", "status not ok", "body is not JSON", "ok"} :
          IF outcome = "no key" THEN analysis' = analysis /\ aiCall' = "no key"
          ELSE IF outcome = "ok"
               THEN /\ \E aiText \in Completions : analysis' = ParseCompletion(aiText)
                    /\ aiCall' = "ok"
               ELSE /\ analysis' = [summary |-> "AI analysis unavailable due to an upstream error.",
                                    insights |-> <<>>, actions |-> <<>>]
                    /\ aiCall' = "caught"
    /\ pc' = "insert"
    /\ UNCHANGED <<requests, sheetRows, headerRow, heap, sheet,
                   parsed, incomingFiles, fileIdx, parsedDatasets, storage,
                   filesRead, resolved, reports, response>>

\* lines 870-904: datasetSummariesForStorage
DatasetSummaries(datasets) ==
    [k \in 1..Len(datasets) |->
        LET dataset == datasets[k]
        IN [fileName |-> dataset.fileName,
            storageFileName |-> dataset.storageFileName,
            publicUrl |-> dataset.publicUrl,
            contentType |-> dataset.contentType,
            datasetType |-> dataset.datasetType,
            rowCount |-> dataset.rowCount,
            presentColumns |-> dataset.presentKeys,
            metrics |->
               [netSales |-> formatNumber(dataset.metrics.netSales, 2),
                guests |-> formatNumber(dataset.metrics.guests, 2),
                tips |-> formatNumber(dataset.metrics.tips, 2),
                laborCost |-> formatNumber(dataset.metrics.laborCost, 2),
                laborHours |-> formatNumber(dataset.metrics.laborHours, 2),
                laborPercentAverage |->
                   formatNumber(average(dataset.metrics.laborPercentSamples), 2)],
            categoryTotals |->
               [i \in 1..Len(dataset.metrics.categories) |->
                   [category |-> dataset.metrics.categories[i].key,
                    sales |-> NumberOf(formatNumber(dataset.metrics.categories[i].value, 2))]],
            sampleRows |->
               [i \in 1..Len(dataset.normalizedSample) |->
                   LET row == dataset.normalizedSample[i]
                   IN [date |-> row.date, category |-> row.category, item |-> row.item,
                       net_sales |-> formatNumber(row.net_sales, 2),
                       guests |-> formatNumber(row.guests, 3),
                       tips |-> formatNumber(row.tips, 2),
                       labor_cost |-> formatNumber(row.labor_cost, 2),
                       labor_hours |-> formatNumber(row.labor_hours, 3),
                       labor_percent |-> formatNumber(row.labor_percent, 2)]]]]

\* lines 1004-1008, of the groups a request combined
ReportTypeOf(combinedByType, reportTypeRaw) ==
    LET combinedTypes ==
            SelectSeq([g \in 1..Len(combinedByType) |-> combinedByType[g].key],
                      LAMBDA type : type # "unknown")
        autoReportType == IF Len(combinedTypes) = 1 THEN combinedTypes[1] ELSE "multi"
    IN IF reportTypeRaw \in {"sales", "labor", "performance", "multi"}
       THEN reportTypeRaw ELSE autoReportType

FinalReportType(reportTypeRaw) == ReportTypeOf(resolved.combinedByType, reportTypeRaw)

\* lines 994-1021: reportData (restaurant_name, period and user_id, which only
\* pass through the handler, are left out)
ReportRecord(datasets, values, agent, reportTypeRaw) ==
    [report_type |-> ReportTypeOf(values.combinedByType, reportTypeRaw),
     file_url |-> datasets[1].publicUrl,
     kpis |-> values.kpis,
     agent |-> agent,
     chart_data |->
        [dailySales |-> values.dailySalesData,
         ppaTrend |-> values.ppaTrendData,
         categoryMix |-> values.categoryMixData,
         availableCharts |-> values.availableCharts,
         availableKpis |-> values.kpis.available,
         datasets |-> DatasetSummaries(datasets)]]

ReportData(reportTypeRaw) == ReportRecord(parsedDatasets, resolved, analysis, reportTypeRaw)

\* lines 1025-1047 as they would be were insertError not tested
InsertReportIgnoringError ==
    /\ pc = "insert"
    /\ \E insertError \in BOOLEAN, reportTypeRaw \in {"", "labor", "weekly"} :
          /\ reports' = IF insertError THEN reports
                        ELSE Append(reports, ReportData(reportTypeRaw))
          /\ response' = Respond(200, "")
    /\ pc' = "done"
    /\ UNCHANGED <<requests, sheetRows, headerRow, heap, sheet,
                   parsed, incomingFiles, fileIdx, parsedDatasets, storage,
                   filesRead, aiCall, resolved, analysis>>

\* lines 1025-1047: the insert into pulse_reports and the response
InsertReport ==
    /\ pc = "insert"
    /\ \E insertError \in BOOLEAN, reportTypeRaw \in {"", "labor", "weekly"} :
          IF insertError
          THEN reports' = reports /\ response' = GenericFailure
          ELSE /\ reports' = Append(reports, ReportData(reportTypeRaw))
               /\ response' = Respond(200, "")
    /\ pc' = "done"
    /\ UNCHANGED <<requests, sheetRows, headerRow, heap, sheet,
                   parsed, incomingFiles, fileIdx, parsedDatasets, storage,
                   filesRead, aiCall, resolved, analysis>>

Next ==
    \/ Authenticate
    \/ Validate
    \/ ProcessFile
    \/ Resolve
    \/ Analyze
    \/ InsertReport

Spec == Init /\ [][Next]_vars

-----------------------------------------------------------------------------
(* One file of generated rows, parsed and then resolved as a batch of its own *)

\* a label column (dates or categories) beside a Net Sales column
RowHeaders == {"Date", "Category"}

RowLabels(header) ==
    IF header = "Date" THEN {NullCell, S("2024-11-02"), S("2024-11-01")}
    ELSE {NullCell, S("Food"), S("Bar")}

\* an absent value, a value in cents, one below the cent and its negative, and
\* a text parseFloat reads as Infinity
RowAmounts == {NullCell, S("2.50"), S("10.004"), S("(10.004)"), S("Infinity")}

RowsUnder(header) ==
    UNION {[1..n -> {<<label, amount>> : label \in RowLabels(header), amount \in RowAmounts}] :
              n \in 0..MaxRows}

RowSheets ==
    UNION {{[headers |-> <<S(header), S("Net Sales")>>, dataRows |-> rows] :
               rows \in RowsUnder(header)} : header \in RowHeaders}

InitRows ==
    /\ pc = "sheet"
    /\ sheet \in RowSheets
    /\ parsed = NoParsed
    /\ HandlerIdle
    /\ NoRows
    /\ NoHeap
    /\ NoRequests

\* lines 730-868 for a request whose only file is the sheet parsed
ResolveSheet ==
    /\ pc = "parsed"
    /\ parsedDatasets' =
          <<WithStorage(parsed, StorageFileName(1, parsed.fileName), "text/csv")>>
    /\ resolved' = ResolveKpis(parsedDatasets')
    /\ pc' = "resolved"
    /\ UNCHANGED <<requests, sheetRows, headerRow, heap, sheet,
                   parsed, incomingFiles, fileIdx, storage, filesRead, aiCall,
                   analysis, reports, response>>

NextRows ==
    \/ ParseSheet
    \/ ResolveSheet

SpecRows == InitRows /\ [][NextRows]_vars

-----------------------------------------------------------------------------
(* Two files of many rows, parsed and combined: sheets around MAX_SAMPLE_ROWS *)

\* the row counts: none, half the cap, and MaxOver rows either side of the cap
SampleRowCounts ==
    {0, MAX_SAMPLE_ROWS \div 2}
        \cup ((MAX_SAMPLE_ROWS - MaxOver)..(MAX_SAMPLE_ROWS + MaxOver))

SampleHeaders == {"Item", "Category"}

\* "full": every row has a label and an amount; "gaps": every third row is
\* blank and every fifth has a text that is no number beside no label;
\* "late": the first three rows have no value
SamplePatterns == {"full", "gaps", "late"}

BlankRow == <<NullCell, S("  ")>>
ValuelessRow == <<NullCell, S("n/a")>>

SampleRow(pattern, i) ==
    IF pattern = "gaps" /\ i % 3 = 0 THEN BlankRow
    ELSE IF pattern = "gaps" /\ i % 5 = 0 THEN ValuelessRow
    ELSE IF pattern = "late" /\ i <= 3 THEN ValuelessRow
    ELSE <<S("Label"), N(i)>>

SampleSheets ==
    {[headers |-> <<S(header), S("Net Sales")>>,
      dataRows |-> [i \in 1..n |-> SampleRow(pattern, i)]] :
        header \in SampleHeaders, pattern \in SamplePatterns, n \in SampleRowCounts}

InitSample ==
    /\ pc = "sheet"
    /\ sheet \in SampleSheets
    /\ parsed = NoParsed
    /\ HandlerIdle
    /\ NoRows
    /\ NoHeap
    /\ NoRequests

\* lines 693-868 for a request of two files: another sheet, then the sheet
\* parsed
CombineSheets ==
    /\ pc = "parsed"
    /\ \E other \in SampleSheets :
          parsedDatasets' =
             <<WithStorage(parseDataset("other.csv", other.headers, other.dataRows),
                           StorageFileName(1, "other.csv"), "text/csv"),
               WithStorage(parsed, StorageFileName(2, parsed.fileName), "text/csv")>>
    /\ resolved' = ResolveKpis(parsedDatasets')
    /\ pc' = "resolved"
    /\ UNCHANGED <<requests, sheetRows, headerRow, heap, sheet,
                   parsed, incomingFiles, fileIdx, storage, filesRead, aiCall,
                   analysis, reports, response>>

NextSample ==
    \/ ParseSheet
    \/ CombineSheets

SpecSample == InitSample /\ [][NextSample]_vars

-----------------------------------------------------------------------------
(* The header row of a sheet: detectHeaderRow applied to the rows read *)

\* rows a sheet can hold above, at and below its header row: a title, an
\* empty row, a row of three sales columns, two header rows and a data row
CandidateRows ==
    {<<S("Monthly report")>>,
     <<>>,
     <<S("Sales"), S("Sales Tax"), S("Gross Sales")>>,
     <<S("Date"), S("Net Sales")>>,
     <<S("Item"), S("Guests")>>,
     <<S("2024-11-01"), N(10)>>}

ShortSheets == UNION {[1..n -> CandidateRows] : n \in 1..MaxHeaderRows}

\* titles down to the end of the rows detectHeaderRow looks at, or one row
\* short of it or one row past it, and then one row more
LongSheets ==
    {[i \in 1..n |-> <<S("Monthly report")>>] \o <<last>> :
        n \in (HEADER_SCAN_LIMIT - 2)..HEADER_SCAN_LIMIT, last \in CandidateRows}

HeaderSheets == ShortSheets \cup LongSheets

InitHeader ==
    /\ pc = "rows"
    /\ sheetRows \in HeaderSheets
    /\ headerRow = 0
    /\ sheet = NoSheet
    /\ parsed = NoParsed
    /\ HandlerIdle
    /\ NoHeap
    /\ NoRequests

\* lines 704-710: the header row and the data rows of the rows read
FindHeader ==
    /\ pc = "rows"
    /\ headerRow' = detectHeaderRow(sheetRows)
    /\ sheet' = [headers |-> sheetRows[headerRow'],
                 dataRows |-> SelectSeq(SubSeq(sheetRows, headerRow' + 1, Len(sheetRows)),
                                        isMeaningfulRow)]
    /\ pc' = IF Len(sheetRows[headerRow']) = 0 THEN "failed" ELSE "sheet"
    /\ UNCHANGED <<requests, sheetRows, heap, parsed, incomingFiles, fileIdx, parsedDatasets,
                   storage, filesRead, aiCall, resolved, analysis, reports, response>>

NextHeader ==
    \/ FindHeader
    \/ ParseSheet

SpecHeader == InitHeader /\ [][NextHeader]_vars

-----------------------------------------------------------------------------
(* combineDatasets over objects with identity: what it writes, and where *)

\* The heap is a Map from the identity of an object to its value. A file
\* owns its daily Map (date -> the identity of a DailyTotals object), the
\* DailyTotals objects, its category Map, its labor-percent array, its
\* present-key Set and its sample array; combineDatasets creates the same
\* for a group.
HeapGet(objects, id) == objects[MapIndex(objects, id)].value
HeapSet(objects, id, value) == MapSet(objects, [key |-> id, value |-> value])

FileObj(k, part) == "file" \o NatToString(k) \o "." \o part
GroupObj(type, part) == type \o "." \o part
TotalsPart(date) == "daily." \o date

\* the DailyTotals objects of the first j entries of file k's daily map
RECURSIVE FileTotals(_, _, _, _)
FileTotals(objects, k, daily, j) ==
    IF j = 0 THEN objects
    ELSE HeapSet(FileTotals(objects, k, daily, j - 1),
                 FileObj(k, TotalsPart(daily[j].key)),
                 [netSales |-> daily[j].netSales, guests |-> daily[j].guests,
                  tips |-> daily[j].tips])

\* the objects of file k (the ParsedFileData parseDataset returned, lines 475-483)
FileObjects(objects, k, dataset) ==
    FileTotals(
        HeapSet(HeapSet(HeapSet(HeapSet(HeapSet(objects,
            FileObj(k, "daily"),
            [j \in 1..Len(dataset.metrics.daily) |->
                [key |-> dataset.metrics.daily[j].key,
                 ref |-> FileObj(k, TotalsPart(dataset.metrics.daily[j].key))]]),
            FileObj(k, "categories"), dataset.metrics.categories),
            FileObj(k, "laborPercentSamples"), dataset.metrics.laborPercentSamples),
            FileObj(k, "presentKeys"), dataset.presentKeys),
            FileObj(k, "normalizedSample"), dataset.normalizedSample),
        k, dataset.metrics.daily, Len(dataset.metrics.daily))

\* the objects of the first k files of the request
RECURSIVE FileHeap(_, _)
FileHeap(datasets, k) ==
    IF k = 0 THEN <<>>
    ELSE FileObjects(FileHeap(datasets, k - 1), k, datasets[k])

\* line 549 as it would be were the file's own object taken for a new date
CurrentTotalsShared(daily, key, fresh, value) ==
    IF MapHas(daily, key) THEN daily[MapIndex(daily, key)].ref ELSE value

\* line 549, daily.get(key) ?? { netSales: 0, guests: 0, tips: 0 }: the
\* identity of the object the combined map has for the date, or of a new one
CurrentTotals(daily, key, fresh, value) ==
    IF MapHas(daily, key) THEN daily[MapIndex(daily, key)].ref ELSE fresh

\* the new object of line 549, when current is not yet on the heap
Allocated(objects, current) ==
    IF MapHas(objects, current) THEN objects
    ELSE HeapSet(objects, current, [netSales |-> Zero, guests |-> Zero, tips |-> Zero])

\* lines 550-553: current.netSales += value.netSales, ..., daily.set(key, current)
WriteTotals(objects, type, entry, current) ==
    HeapSet(HeapSet(objects, current,
                    [netSales |-> JsAdd(HeapGet(objects, current).netSales,
                                        HeapGet(objects, entry.ref).netSales),
                     guests |-> JsAdd(HeapGet(objects, current).guests,
                                      HeapGet(objects, entry.ref).guests),
                     tips |-> JsAdd(HeapGet(objects, current).tips,
                                    HeapGet(objects, entry.ref).tips)]),
            GroupObj(type, "daily"),
            MapSet(HeapGet(objects, GroupObj(type, "daily")),
                   [key |-> entry.key, ref |-> current]))

\* lines 549-553 for the object current stands for
AddToCurrent(objects, type, entry, current) ==
    WriteTotals(Allocated(objects, current), type, entry, current)

\* lines 548-554 for one entry of a file's daily map
AddTotals(objects, type, entry) ==
    AddToCurrent(objects, type, entry,
                 CurrentTotals(HeapGet(objects, GroupObj(type, "daily")), entry.key,
                               GroupObj(type, TotalsPart(entry.key)), entry.ref))

\* lines 548-554 over the first j entries of a file's daily map
RECURSIVE MergeDailyOnHeap(_, _, _, _)
MergeDailyOnHeap(objects, type, entries, j) ==
    IF j = 0 THEN objects
    ELSE AddTotals(MergeDailyOnHeap(objects, type, entries, j - 1), type, entries[j])

\* lines 535-546 and 556-559 for file k: what is written to the group's key
\* Set, labor-percent array, category Map and sample array
MergeContainers(objects, type, k) ==
    HeapSet(HeapSet(HeapSet(HeapSet(objects,
        GroupObj(type, "keys"),
        HeapGet(objects, GroupObj(type, "keys")) \cup HeapGet(objects, FileObj(k, "presentKeys"))),
        GroupObj(type, "laborPercentSamples"),
        HeapGet(objects, GroupObj(type, "laborPercentSamples"))
            \o HeapGet(objects, FileObj(k, "laborPercentSamples"))),
        GroupObj(type, "categories"),
        MergeCategories(HeapGet(objects, GroupObj(type, "categories")),
                        HeapGet(objects, FileObj(k, "categories")),
                        Len(HeapGet(objects, FileObj(k, "categories"))))),
        GroupObj(type, "sampleRows"),
        TakeSample(HeapGet(objects, GroupObj(type, "sampleRows")),
                   HeapGet(objects, FileObj(k, "normalizedSample"))))

\* lines 522-526: the Set, the Maps and the arrays combineDatasets creates
NewContainers(objects, type) ==
    HeapSet(HeapSet(HeapSet(HeapSet(HeapSet(objects,
        GroupObj(type, "keys"), {}),
        GroupObj(type, "categories"), <<>>),
        GroupObj(type, "daily"), <<>>),
        GroupObj(type, "laborPercentSamples"), <<>>),
        GroupObj(type, "sampleRows"), <<>>)

\* the loop of combineDatasets (lines 534-560) over the first n files of a group
RECURSIVE CombineOnHeap(_, _, _, _)
CombineOnHeap(objects, type, files, n) ==
    IF n = 0 THEN NewContainers(objects, type)
    ELSE MergeDailyOnHeap(
             MergeContainers(CombineOnHeap(objects, type, files, n - 1), type, files[n]),
             type,
             HeapGet(objects, FileObj(files[n], "daily")),
             Len(HeapGet(objects, FileObj(files[n], "daily"))))

\* lines 749-752 over the first g groups
RECURSIVE CombineGroupsOnHeap(_, _, _)
CombineGroupsOnHeap(objects, groupedByType, g) ==
    IF g = 0 THEN objects
    ELSE CombineOnHeap(CombineGroupsOnHeap(objects, groupedByType, g - 1),
                       groupedByType[g].key, groupedByType[g].files,
                       Len(groupedByType[g].files))

\* the files of the catalog the per-file loop parses
ParsableFiles == {f \in 1..Len(FileCatalog) : ReadCatalog[f].error = ""}

\* the requests whose files were all parsed and stored
ParsedBatches == UNION {[1..n -> ParsableFiles] : n \in 1..MaxFiles}

\* what the loop of lines 693-736 has made of such a request
StoredDatasets(batch) ==
    [k \in 1..Len(batch) |->
        WithStorage(ReadCatalog[batch[k]].parsed,
                    StorageFileName(k, FileCatalog[batch[k]].name),
                    FileCatalog[batch[k]].type)]

\* the state of a request after its per-file loop
InitCombine ==
    /\ pc = "resolve"
    /\ incomingFiles \in ParsedBatches
    /\ fileIdx = Len(incomingFiles)
    /\ filesRead = Len(incomingFiles)
    /\ parsedDatasets = StoredDatasets(incomingFiles)
    /\ storage = {parsedDatasets[k].storageFileName : k \in 1..Len(parsedDatasets)}
    /\ heap = FileHeap(parsedDatasets, Len(parsedDatasets))
    /\ aiCall = "none"
    /\ resolved = ResolveKpis(<<>>)
    /\ analysis = NoAnalysis
    /\ reports = <<>>
    /\ response = NoResponse
    /\ sheet = NoSheet
    /\ parsed = NoParsed
    /\ NoRows
    /\ NoRequests

\* lines 742-868, with what combineDatasets writes followed on the heap
CombineFiles ==
    /\ pc = "resolve"
    /\ resolved' = ResolveKpis(parsedDatasets)
    /\ heap' = CombineGroupsOnHeap(heap, GroupByType(parsedDatasets, Len(parsedDatasets)),
                                   Len(GroupByType(parsedDatasets, Len(parsedDatasets))))
    /\ pc' = "resolved"
    /\ UNCHANGED <<requests, sheetRows, headerRow, sheet, parsed, incomingFiles, fileIdx,
                   parsedDatasets, storage, filesRead, aiCall, analysis, reports, response>>

NextCombine == CombineFiles

SpecCombine == InitCombine /\ [][NextCombine]_vars

-----------------------------------------------------------------------------
(* Properties of header classification (SpecClassify, SpecType) *)

Parsed == pc = "parsed"

\* the header of column i of the sheet contains "gross", in any case
GrossHeader(i) == Includes(toLowerCase(sheet.headers[i].s), "gross")

HasHeader(text) == \E i \in 1..Len(sheet.headers) : sheet.headers[i] = S(text)

\* C1: after the classification of a header row, every canonical key is the
\* role of at most one column
C1_OneColumnPerKey ==
    Parsed =>
        \A key \in CanonicalKeys :
            Cardinality({i \in 1..Len(parsed.headerMeta) :
                            parsed.headerMeta[i].canonical = key}) <= 1

\* C2: no column whose header contains "gross" is bound to net_sales, by either
\* pass, and the column net sales are read from is never such a column; a row
\* with a "Gross Sales" and a "Net Sales" column, in either order, has every
\* "Net Sales" column bound to net_sales, and reads net sales from one of them
\* when no other column names net sales
C2_GrossNeverNetSales ==
    Parsed =>
        /\ \A i \in 1..Len(sheet.headers) :
              GrossHeader(i) => parsed.headerMeta[i].canonical # "net_sales"
        /\ parsed.indexByKey["net_sales"] # 0 => ~GrossHeader(parsed.indexByKey["net_sales"])
        /\ HasHeader("Gross Sales") /\ HasHeader("Net Sales") =>
              /\ \A i \in 1..Len(sheet.headers) :
                    sheet.headers[i] = S("Net Sales") =>
                        parsed.headerMeta[i].canonical = "net_sales"
              /\ "net_sales" \in parsed.presentKeys
              /\ ~HasHeader("Total_Net  SALES") =>
                    sheet.headers[parsed.indexByKey["net_sales"]] = S("Net Sales")

\* a "Gross Sales" column ahead of a "Net Sales" column: net sales are read
\* from the second
C2_Witness ==
    /\ Parsed
    /\ sheet.headers = <<S("Gross Sales"), S("Net Sales")>>
    /\ parsed.headerMeta[1].canonical = NoKey
    /\ parsed.indexByKey["net_sales"] = 2
    /\ parsed.metrics.netSales = Int2Num(20)

\* the decision table of dataset types
TypeTable(keys) ==
    IF keys \cap {"labor_cost", "labor_hours", "labor_percent"} # {} THEN "labor"
    ELSE IF {"net_sales", "item"} \subseteq keys THEN "item_sales"
    ELSE IF {"net_sales", "category"} \subseteq keys THEN "category_rollup"
    ELSE IF {"net_sales", "date"} \subseteq keys THEN "daily_sales"
    ELSE IF "net_sales" \in keys THEN "general_sales"
    ELSE IF "tips" \in keys THEN "tips"
    ELSE "unknown"

\* the keys whose usual header is a header of the sheet
KeysOfSheet == {key \in CanonicalKeys : HasHeader(UsualHeader(key))}

\* C3: the dataset type of a file is the table's entry for the file's key set,
\* whatever the rows hold, and detectDatasetType agrees with the table on every
\* one of the 2^9 key sets
C3_TypeIsTableOfKeys ==
    /\ \A keys \in SUBSET CanonicalKeys : detectDatasetType(keys) = TypeTable(keys)
    /\ Parsed =>
          /\ parsed.presentKeys = KeysOfSheet
          /\ parsed.datasetType = TypeTable(KeysOfSheet)

\* a sheet with a labor key beside net sales and item, and two data rows
C3_Witness ==
    /\ Parsed
    /\ parsed.presentKeys = {"net_sales", "item", "labor_hours"}
    /\ Len(sheet.dataRows) = 2
    /\ parsed.rowCount = 2
    /\ parsed.datasetType = "labor"

-----------------------------------------------------------------------------
(* Properties of KPI resolution (Spec) *)

\* the KPIs of the request have been resolved
Resolved == pc \in {"analyze", "insert"}

\* the files of a dataset type: a group
FilesOfType(type) ==
    {k \in 1..Len(parsedDatasets) : parsedDatasets[k].datasetType = type}

GroupHas(type, key) == \E k \in FilesOfType(type) : key \in parsedDatasets[k].presentKeys

\* the sum of a metric over the files of a group among the first k files
RECURSIVE GroupSum(_, _, _)
GroupSum(type, metric, k) ==
    IF k = 0 THEN Zero
    ELSE IF parsedDatasets[k].datasetType = type
         THEN JsAdd(GroupSum(type, metric, k - 1), parsedDatasets[k].metrics[metric])
         ELSE GroupSum(type, metric, k - 1)

GroupTotal(type, metric) == GroupSum(type, metric, Len(parsedDatasets))

\* the labor_percent samples of the labor files among the first k files
RECURSIVE LaborSamples(_)
LaborSamples(k) ==
    IF k = 0 THEN <<>>
    ELSE IF parsedDatasets[k].datasetType = "labor"
         THEN LaborSamples(k - 1) \o parsedDatasets[k].metrics.laborPercentSamples
         ELSE LaborSamples(k - 1)

\* the first group of the order that exists and has the key
FirstGroupWith(order, key) ==
    IF \E i \in 1..Len(order) : GroupHas(order[i], key)
    THEN order[CHOOSE i \in 1..Len(order) :
                  GroupHas(order[i], key) /\ \A j \in 1..(i - 1) : ~GroupHas(order[j], key)]
    ELSE NoDataset

NetGroup ==
    FirstGroupWith(<<"item_sales", "daily_sales", "category_rollup", "general_sales">>,
                   "net_sales")
GuestGroup == FirstGroupWith(<<"item_sales", "daily_sales", "general_sales">>, "guests")
TipsGroup == FirstGroupWith(<<"tips", "item_sales", "daily_sales", "general_sales">>, "tips")

\* C4: the net sales KPI is the summed net sales of the first group of
\* [item_sales, daily_sales, category_rollup, general_sales] that has the
\* net_sales key, and is unavailable when there is none; a batch of labor files
\* only has it unavailable
C4_NetSalesByPriority ==
    Resolved =>
        /\ resolved.kpis.available.netSales = (NetGroup # NoDataset)
        /\ resolved.kpis.totals.netSales =
              IF NetGroup # NoDataset THEN GroupTotal(NetGroup, "netSales") ELSE Null
        /\ resolved.kpis.netSales =
              IF NetGroup # NoDataset THEN formatNumber(GroupTotal(NetGroup, "netSales"), 2)
              ELSE NA
        /\ (\A k \in 1..Len(parsedDatasets) :
               parsedDatasets[k].datasetType \in {"labor", "tips", "unknown"})
              => ~resolved.kpis.available.netSales

\* a category file ahead of a daily file: the net sales are the daily group's
C4_Witness ==
    /\ Resolved
    /\ Len(parsedDatasets) = 2
    /\ parsedDatasets[1].datasetType = "category_rollup"
    /\ parsedDatasets[2].datasetType = "daily_sales"
    /\ parsedDatasets[1].metrics.netSales # parsedDatasets[2].metrics.netSales
    /\ resolved.kpis.totals.netSales = parsedDatasets[2].metrics.netSales
    /\ resolved.kpis.available.netSales

\* C5 as stated: the guests KPI is the summed guests of the first group of
\* [item_sales, daily_sales, general_sales] that has the guests key, and is
\* unavailable when none of the three has it
C5_GuestsByPriorityOnly ==
    Resolved =>
        /\ resolved.kpis.available.guests = (GuestGroup # NoDataset)
        /\ resolved.kpis.totals.guests =
              IF GuestGroup # NoDataset THEN GroupTotal(GuestGroup, "guests") ELSE Null

\* the group the guests KPI is read from: the group of the net sales KPI when
\* it has the guests key, else the first of the guests order
GuestSource ==
    IF NetGroup # NoDataset /\ GroupHas(NetGroup, "guests") THEN NetGroup ELSE GuestGroup

\* C5 amended: the guests KPI is the summed guests of the group that supplies
\* the net sales KPI when that group has the guests key, otherwise of the first
\* group of [item_sales, daily_sales, general_sales] that has the guests key,
\* and is unavailable when there is neither; guests of a labor, tips or unknown
\* group are never used
C5_GuestsFromNetGroupFirst ==
    Resolved =>
        /\ resolved.kpis.available.guests = (GuestSource # NoDataset)
        /\ resolved.kpis.totals.guests =
              IF GuestSource # NoDataset THEN GroupTotal(GuestSource, "guests") ELSE Null
        /\ GuestSource \notin {"labor", "tips", "unknown"}

\* a category file and a general file, both with guests: the guests are the
\* category group's
C5_Witness ==
    /\ Resolved
    /\ Len(parsedDatasets) = 2
    /\ NetGroup = "category_rollup"
    /\ GuestGroup = "general_sales"
    /\ GroupTotal("category_rollup", "guests") # GroupTotal("general_sales", "guests")
    /\ resolved.kpis.totals.guests = GroupTotal("category_rollup", "guests")

\* the sheet of scenario 1
ScenarioSheet ==
    Sheet(<<"Date", "Category", "Net Sales", "Guests">>,
          << <<S("2024-11-01"), S("Food"), N(500), N(20)>>,
             <<S("2024-11-02"), S("Beverage"), N(300), N(15)>> >>)

ScenarioBatch == Len(incomingFiles) = 1 /\ FileOf(1).rows = ScenarioSheet

\* C6: the one file of scenario 1 is typed category_rollup and resolves to net
\* sales 800, guests 35 and PPA 22.86, all three available, with the category
\* mix Food 500 then Beverage 300
C6_Scenario ==
    Resolved /\ ScenarioBatch =>
        /\ parsedDatasets[1].datasetType = "category_rollup"
        /\ resolved.kpis.netSales = Int2Num(800)
        /\ resolved.kpis.guests = Int2Num(35)
        /\ resolved.kpis.ppa = Fin(2286, 100)
        /\ resolved.kpis.available.netSales
        /\ resolved.kpis.available.guests
        /\ resolved.kpis.available.ppa
        /\ resolved.categoryMixData =
              <<[category |-> "Food", sales |-> Int2Num(500)],
                [category |-> "Beverage", sales |-> Int2Num(300)]>>
        /\ resolved.availableCharts.categoryMix

C6_Witness ==
    /\ pc = "insert"
    /\ ScenarioBatch
    /\ resolved.kpis.ppa = Fin(1143, 50)
    /\ Len(resolved.categoryMixData) = 2

\* C7: PPA is the net sales of the group of the net sales KPI over the guests
\* of that same group, and only when that group has the guests key; with the
\* guests KPI read from another group, PPA is unavailable though net sales and
\* guests are available
C7_PpaFromOneGroup ==
    Resolved =>
        /\ resolved.kpis.available.ppa =>
              /\ NetGroup # NoDataset
              /\ GroupHas(NetGroup, "guests")
              /\ resolved.averagePPA =
                    JsDiv(GroupTotal(NetGroup, "netSales"), GroupTotal(NetGroup, "guests"))
        /\ (NetGroup # NoDataset /\ GroupHas(NetGroup, "guests")
               /\ JsGtZero(GroupTotal(NetGroup, "guests")))
              => resolved.kpis.available.ppa
        /\ (NetGroup = NoDataset \/ ~GroupHas(NetGroup, "guests")) =>
              /\ IsNull(resolved.averagePPA)
              /\ ~resolved.kpis.available.ppa
              /\ resolved.kpis.ppa = NA

\* net sales from a category group without guests, guests from another group
C7_Witness ==
    /\ Resolved
    /\ NetGroup = "category_rollup"
    /\ ~GroupHas("category_rollup", "guests")
    /\ GuestGroup = "general_sales"
    /\ resolved.kpis.available.netSales
    /\ resolved.kpis.available.guests
    /\ JsGtZero(resolved.kpis.totals.guests)
    /\ ~resolved.kpis.available.ppa

\* the daily map the chart series are drawn from
ChartDaily ==
    IF resolved.dailyDataset = NoDataset THEN <<>>
    ELSE DatasetOf(resolved.combinedByType, resolved.dailyDataset).metrics.daily

\* C8: PPA is unavailable whenever the guests KPI is null or zero; the PPA
\* trend has an entry for a date exactly when the date's guests are above 0;
\* neither PPA nor a trend entry is Infinity or NaN
C8_PpaNeverNonFinite ==
    Resolved =>
        /\ (IsNull(resolved.kpis.totals.guests) \/ resolved.kpis.totals.guests = Zero) =>
              IsNull(resolved.averagePPA) /\ ~resolved.kpis.available.ppa
        /\ {resolved.ppaTrendData[i].date : i \in 1..Len(resolved.ppaTrendData)} =
              {ChartDaily[i].key : i \in {j \in 1..Len(ChartDaily) : JsGtZero(ChartDaily[j].guests)}}
        /\ Len(resolved.ppaTrendData) =
              Cardinality({j \in 1..Len(ChartDaily) : JsGtZero(ChartDaily[j].guests)})
        /\ IsNull(resolved.averagePPA) \/ IsFinite(resolved.averagePPA)
        /\ \A i \in 1..Len(resolved.ppaTrendData) : IsFinite(resolved.ppaTrendData[i].ppa)

\* C9: the tips total is that of the first group of [tips, item_sales,
\* daily_sales, general_sales] that has the tips key, never of a labor,
\* category_rollup or unknown group; tip % is tips / net sales x 100 exactly
\* when the tips total is available and the net sales KPI is available and not
\* zero, and is unavailable otherwise
C9_TipsByPriority ==
    Resolved =>
        /\ resolved.kpis.available.tips = (TipsGroup # NoDataset)
        /\ resolved.kpis.totals.tips =
              IF TipsGroup # NoDataset THEN GroupTotal(TipsGroup, "tips") ELSE Null
        /\ (\A k \in 1..Len(parsedDatasets) :
               parsedDatasets[k].datasetType \in {"labor", "category_rollup", "unknown"})
              => ~resolved.kpis.available.tips /\ ~resolved.kpis.available.tipPercent
        /\ IF TipsGroup # NoDataset /\ NetGroup # NoDataset
              /\ GroupTotal(NetGroup, "netSales") # Zero
           THEN /\ resolved.tipPercentNumber =
                      JsMul(JsDiv(GroupTotal(TipsGroup, "tips"),
                                  GroupTotal(NetGroup, "netSales")), Int2Num(100))
                /\ resolved.kpis.available.tipPercent
           ELSE /\ IsNull(resolved.tipPercentNumber)
                /\ ~resolved.kpis.available.tipPercent
                /\ resolved.kpis.tipPercent = NA

\* a labor file with tips and a general file with tips: the tips are the
\* general group's, and so is tip %
C9_Witness ==
    /\ Resolved
    /\ GroupHas("labor", "tips")
    /\ TipsGroup = "general_sales"
    /\ JsGtZero(GroupTotal("labor", "tips"))
    /\ resolved.kpis.totals.tips = Int2Num(80)
    /\ resolved.kpis.tipPercent = Int2Num(10)

\* the labor % the claim states
StatedLaborPercent ==
    IF FilesOfType("labor") # {} /\ Len(LaborSamples(Len(parsedDatasets))) > 0
    THEN JsDiv(SumNums(LaborSamples(Len(parsedDatasets))),
               Int2Num(Len(LaborSamples(Len(parsedDatasets)))))
    ELSE IF GroupHas("labor", "labor_cost") /\ NetGroup # NoDataset
            /\ GroupTotal(NetGroup, "netSales") # Zero
         THEN JsMul(JsDiv(GroupTotal("labor", "laborCost"), GroupTotal(NetGroup, "netSales")),
                    Int2Num(100))
         ELSE Null

\* C10: labor % is the average of the labor group's labor_percent samples when
\* there is a sample, even an average of 0; otherwise labor cost / net sales x
\* 100 when the labor group has the labor_cost key and the net sales KPI is
\* known and not zero; otherwise unavailable.  A batch of one file with the
\* columns Labor Hours and Labor Cost has net sales and labor % unavailable
C10_LaborPercent ==
    Resolved =>
        /\ resolved.laborPercentNumber = StatedLaborPercent
        /\ resolved.kpis.available.laborPercent = ~IsNull(StatedLaborPercent)
        /\ NetGroup # "labor"
        /\ (Len(parsedDatasets) = 1
               /\ parsedDatasets[1].presentKeys = {"labor_hours", "labor_cost"}) =>
              /\ ~resolved.kpis.available.netSales
              /\ ~resolved.kpis.available.laborPercent
              /\ resolved.kpis.laborPercent = NA
        /\ (GroupHas("labor", "labor_cost") /\ LaborSamples(Len(parsedDatasets)) = <<>>) =>
              (resolved.kpis.available.laborPercent =>
                  \E k \in 1..Len(parsedDatasets) :
                      /\ parsedDatasets[k].datasetType # "labor"
                      /\ "net_sales" \in parsedDatasets[k].presentKeys)

\* a Labor Hours, Labor Cost file beside a file that supplies net sales
C10_Witness ==
    /\ Resolved
    /\ Len(parsedDatasets) = 2
    /\ parsedDatasets[1].presentKeys = {"labor_hours", "labor_cost"}
    /\ NetGroup = "general_sales"
    /\ resolved.kpis.laborPercent = Int2Num(75)

-----------------------------------------------------------------------------
(* Properties of the persisted record (Spec) *)

\* the KPIs that carry an availability flag and a formatted value
FlaggedKpis == {"netSales", "guests", "ppa", "tipPercent", "laborPercent"}

\* C11: in every persisted report, each of the five KPIs is flagged available
\* exactly when its value is a number and not the marker 'N/A'
C11_FlagsAgreeWithValues ==
    \A i \in 1..Len(reports) :
        \A kpi \in FlaggedKpis :
            reports[i].kpis.available[kpi] <=> (reports[i].kpis[kpi] # NA)

\* the per-file metric of the stored summary that each canonical key feeds
MetricOfKey ==
    [net_sales |-> "netSales", guests |-> "guests", tips |-> "tips",
     labor_cost |-> "laborCost", labor_hours |-> "laborHours"]

\* the labor files of a persisted report's summaries that carry a key
SummaryLaborHas(report, key) ==
    \E k \in 1..Len(report.chart_data.datasets) :
        /\ report.chart_data.datasets[k].datasetType = "labor"
        /\ key \in report.chart_data.datasets[k].presentColumns

\* C12: in the stored record a per-file metric is unavailable when the file has
\* no column of that role, and kpis.totals.laborCost / laborHours are null
\* whenever the labor group lacks the labor_cost / labor_hours key
C12_AbsentMetricIsNull ==
    \A i \in 1..Len(reports) :
        /\ \A k \in 1..Len(reports[i].chart_data.datasets) :
              \A key \in DOMAIN MetricOfKey :
                  key \notin reports[i].chart_data.datasets[k].presentColumns =>
                      reports[i].chart_data.datasets[k].metrics[MetricOfKey[key]] = NA
        /\ ~SummaryLaborHas(reports[i], "labor_cost") => IsNull(reports[i].kpis.totals.laborCost)
        /\ ~SummaryLaborHas(reports[i], "labor_hours") => IsNull(reports[i].kpis.totals.laborHours)

-----------------------------------------------------------------------------
(* Properties of the category and daily maps (SpecRows) *)

SheetParsed == pc \in {"parsed", "resolved"}
SheetResolved == pc = "resolved"

\* the sum of a numeric field over the first k entries of a sequence
RECURSIVE SumField(_, _, _)
SumField(entries, field, k) ==
    IF k = 0 THEN Zero ELSE JsAdd(SumField(entries, field, k - 1), entries[k][field])

SumOf(entries, field) == SumField(entries, field, Len(entries))

\* the rows parsed (a sheet of the model has fewer than MAX_SAMPLE_ROWS rows,
\* so the sample holds every row with a value)
ParsedRows == parsed.normalizedSample

HasCategoryAndNet(r) == r.category # NoText /\ ~IsNull(r.net_sales)

EveryRowHasCategoryAndNet ==
    /\ "category" \in parsed.presentKeys
    /\ \A i \in 1..Len(ParsedRows) : HasCategoryAndNet(ParsedRows[i])

\* the only group of the request
OnlyGroup == resolved.combinedByType[1]

\* the file's category map sums to the net sales of the rows that have both
\* a category and net sales, and to the file's and the group's total net
\* sales when every row has both
CategoryMapSums ==
    /\ SheetParsed =>
          /\ SumOf(parsed.metrics.categories, "value") =
                SumOf(SelectSeq(ParsedRows, HasCategoryAndNet), "net_sales")
          /\ EveryRowHasCategoryAndNet =>
                SumOf(parsed.metrics.categories, "value") = parsed.metrics.netSales
    /\ (SheetResolved /\ EveryRowHasCategoryAndNet) =>
          /\ resolved.categoryDataset = OnlyGroup.key
          /\ SumOf(OnlyGroup.metrics.categories, "value") = OnlyGroup.metrics.netSales
          /\ resolved.kpis.totals.netSales = OnlyGroup.metrics.netSales

IsCents(x) == IsFinite(x) /\ 100 % x.d = 0

\* x is y rounded to the cent: a whole number of cents within half a cent of y
IsRoundedToCents(x, y) ==
    /\ IsCents(x)
    /\ IsFinite(y)
    /\ 200 * Abs(x.n * y.d - y.n * x.d) <= x.d * y.d

\* the categories of the only group with a sum other than 0
NonZeroCategories ==
    {i \in 1..Len(OnlyGroup.metrics.categories) : JsNotZero(OnlyGroup.metrics.categories[i].value)}

DatesOfRows ==
    {ParsedRows[i].date : i \in {j \in 1..Len(ParsedRows) : ParsedRows[j].date # NoText}}

\* the sum of net_sales over the rows of a date
NetSalesOfDate(date) ==
    SumOf(SelectSeq(ParsedRows, LAMBDA r : r.date = date /\ ~IsNull(r.net_sales)), "net_sales")

\* the daily sales series has one entry per date of the chosen group's daily
\* map, which are the dates of the rows, in strictly ascending order
DailySeriesDates ==
    (SheetResolved /\ "date" \in parsed.presentKeys) =>
        /\ resolved.dailyDataset = OnlyGroup.key
        /\ {OnlyGroup.metrics.daily[i].key : i \in 1..Len(OnlyGroup.metrics.daily)} = DatesOfRows
        /\ {resolved.dailySalesData[i].date : i \in 1..Len(resolved.dailySalesData)} = DatesOfRows
        /\ Len(resolved.dailySalesData) = Cardinality(DatesOfRows)
        /\ \A i, j \in 1..Len(resolved.dailySalesData) :
              i < j => StringLess(resolved.dailySalesData[i].date, resolved.dailySalesData[j].date)

-----------------------------------------------------------------------------
(* Properties of combination (Spec) *)

\* the groups made of one file only
SingleFileGroups ==
    {g \in 1..Len(resolved.combinedByType) : Len(resolved.combinedByType[g].files) = 1}

\* C15: combineDatasets of a group of one file returns that file's own
\* metrics: the five sums, the labor-percent samples, the category map, the
\* daily map, the key set and the sample rows
C15_SingleFileGroupIsTheFile ==
    Resolved =>
        \A g \in SingleFileGroups :
            LET group == resolved.combinedByType[g]
                file == parsedDatasets[group.files[1]]
            IN /\ group.datasetType = file.datasetType
               /\ group.metrics.netSales = file.metrics.netSales
               /\ group.metrics.guests = file.metrics.guests
               /\ group.metrics.tips = file.metrics.tips
               /\ group.metrics.laborCost = file.metrics.laborCost
               /\ group.metrics.laborHours = file.metrics.laborHours
               /\ group.metrics.laborPercentSamples = file.metrics.laborPercentSamples
               /\ group.metrics.categories = file.metrics.categories
               /\ group.metrics.daily = file.metrics.daily
               /\ group.keys = file.presentKeys
               /\ group.sampleRows = file.normalizedSample

\* a category file and a labor file, each a group of its own, with two
\* categories, two days and two labor-percent samples
C15_Witness ==
    /\ Resolved
    /\ Len(parsedDatasets) = 2
    /\ SingleFileGroups = {1, 2}
    /\ Len(resolved.combinedByType[1].metrics.categories) = 2
    /\ Len(resolved.combinedByType[1].metrics.daily) = 2
    /\ Len(resolved.combinedByType[1].sampleRows) = 2
    /\ resolved.combinedByType[1].metrics.netSales = Int2Num(800)
    /\ Len(resolved.combinedByType[2].metrics.laborPercentSamples) = 2

\* the keys of a Map
KeysOf(map) == {map[i].key : i \in 1..Len(map)}

\* a field of the entries of a key in a Map, summed (0 when the key is absent)
FieldOfKey(map, key, field) ==
    SumOf(SelectSeq(map, LAMBDA entry : entry.key = key), field)

\* a field of a date's daily entries, summed over the first k files of a group
RECURSIVE DailyOverFiles(_, _, _, _)
DailyOverFiles(files, date, field, k) ==
    IF k = 0 THEN Zero
    ELSE JsAdd(DailyOverFiles(files, date, field, k - 1),
               FieldOfKey(parsedDatasets[files[k]].metrics.daily, date, field))

\* a category's values, summed over the first k files of a group
RECURSIVE CategoryOverFiles(_, _, _)
CategoryOverFiles(files, category, k) ==
    IF k = 0 THEN Zero
    ELSE JsAdd(CategoryOverFiles(files, category, k - 1),
               FieldOfKey(parsedDatasets[files[k]].metrics.categories, category, "value"))

\* C16: for every group, the combined daily map has the union of the files'
\* dates as its keys, each once, and holds for a date the sums of netSales,
\* guests and tips over the files that have the date; the combined category
\* map is the key-wise sum likewise; two item_sales files with the same 3
\* dates combine into 3 daily entries
C16_MapsAreKeyWiseSums ==
    Resolved =>
        \A g \in 1..Len(resolved.combinedByType) :
            LET group == resolved.combinedByType[g]
                daily == group.metrics.daily
                categories == group.metrics.categories
                n == Len(group.files)
            IN /\ \A j \in 1..n : parsedDatasets[group.files[j]].datasetType = group.key
               /\ KeysOf(daily) =
                     UNION {KeysOf(parsedDatasets[group.files[j]].metrics.daily) : j \in 1..n}
               /\ Len(daily) = Cardinality(KeysOf(daily))
               /\ \A i \in 1..Len(daily) :
                     \A field \in {"netSales", "guests", "tips"} :
                         daily[i][field] = DailyOverFiles(group.files, daily[i].key, field, n)
               /\ KeysOf(categories) =
                     UNION {KeysOf(parsedDatasets[group.files[j]].metrics.categories) : j \in 1..n}
               /\ Len(categories) = Cardinality(KeysOf(categories))
               /\ \A i \in 1..Len(categories) :
                     categories[i].value = CategoryOverFiles(group.files, categories[i].key, n)
               /\ (group.key = "item_sales" /\ n = 2
                      /\ Len(parsedDatasets[group.files[1]].metrics.daily) = 3
                      /\ KeysOf(parsedDatasets[group.files[1]].metrics.daily) =
                            KeysOf(parsedDatasets[group.files[2]].metrics.daily)) =>
                     Len(daily) = 3

\* two item_sales files with the same 3 dates: 3 daily entries, the first day
\* holding the sales, guests and tips of both files
C16_Witness ==
    /\ Resolved
    /\ Len(resolved.combinedByType) = 1
    /\ resolved.combinedByType[1].key = "item_sales"
    /\ Len(resolved.combinedByType[1].files) = 2
    /\ Len(parsedDatasets[1].metrics.daily) = 3
    /\ Len(parsedDatasets[2].metrics.daily) = 3
    /\ Len(resolved.combinedByType[1].metrics.daily) = 3
    /\ resolved.combinedByType[1].metrics.daily[1] =
          [key |-> "2024-11-01", netSales |-> Int2Num(400), guests |-> Int2Num(20),
           tips |-> Int2Num(60)]

-----------------------------------------------------------------------------
(* Properties of the request handler (Spec) *)

\* what a request has done: files read, datasets kept, objects stored, the
\* narrative request, records inserted
SideEffects == <<filesRead, fileIdx, parsedDatasets, storage, aiCall, analysis, reports>>

NoSideEffects ==
    /\ filesRead = 0
    /\ fileIdx = 0
    /\ parsedDatasets = <<>>
    /\ storage = {}
    /\ aiCall = "none"
    /\ analysis = NoAnalysis
    /\ reports = <<>>

\* the files of the catalog that validation refuses
OversizedInCatalog == {f \in 1..Len(FileCatalog) : FileCatalog[f].size > 10 * 1024 * 1024}

WrongExtensionInCatalog ==
    {f \in 1..Len(FileCatalog) :
        \A ext \in {".csv", ".xlsx", ".xls"} : ~EndsWith(toLowerCase(FileCatalog[f].name), ext)}

\* the positions of the request's files that validation refuses
OversizedFiles == {k \in 1..Len(incomingFiles) : incomingFiles[k] \in OversizedInCatalog}

WrongExtensionFiles ==
    {k \in 1..Len(incomingFiles) : incomingFiles[k] \in WrongExtensionInCatalog}

FilesAcceptable ==
    Len(incomingFiles) > 0 /\ OversizedFiles = {} /\ WrongExtensionFiles = {}

\* the first of a non-empty set of file positions
FirstOf(positions) == CHOOSE k \in positions : \A j \in positions : k <= j

\* the message of the 400 response the request's files call for, "" for none
FilesMessage ==
    IF Len(incomingFiles) = 0 THEN "At least one file is required"
    ELSE IF OversizedFiles # {}
         THEN FileOf(FirstOf(OversizedFiles)).name \o " exceeds the 10MB size limit"
    ELSE IF WrongExtensionFiles # {}
         THEN FileOf(FirstOf(WrongExtensionFiles)).name
              \o " is not a supported format (CSV, XLSX, XLS only)"
    ELSE ""

\* a rejected request has done nothing and has ended with a specific message;
\* a request whose files are not acceptable does nothing and ends rejected
RejectedRequestsDidNothing ==
    /\ response.status \in {400, 401} =>
          /\ pc = "done"
          /\ NoSideEffects
          /\ response.error # ""
          /\ response.error # GenericFailure.error
    /\ ~FilesAcceptable =>
          /\ NoSideEffects
          /\ pc = "done" => response.status \in {400, 401}

\* the steps of authentication and validation: each either lets the request
\* through untouched or ends it with 401 / 400 and a specific message, without
\* a side effect; nothing happens after the response
RejectionSteps ==
    /\ response.status = 0
    /\ pc = "start" =>
          /\ UNCHANGED SideEffects
          /\ \/ pc' = "validate" /\ response' = response
             \/ /\ pc' = "done"
                /\ response'.status = 401
                /\ response'.error \in {"Authentication required", "Invalid authentication"}
    /\ pc = "validate" =>
          /\ UNCHANGED SideEffects
          /\ \/ pc' = "files" /\ response' = response /\ FilesAcceptable
             \/ /\ pc' = "done"
                /\ response'.status = 400
                /\ \/ response'.error \in {"Invalid restaurant name", "Invalid period"}
                   \/ ~FilesAcceptable /\ response'.error = FilesMessage

\* C17: a request that fails authentication or input validation parses no
\* file, stores no object, sends no narrative request and inserts no report;
\* it ends with a 401 or 400 response carrying a specific message
C17_RejectedBeforeParsing == []RejectedRequestsDidNothing /\ [][RejectionSteps]_vars

\* a request with a readable sheet and a PDF, rejected for the PDF
C17_Witness ==
    /\ pc = "done"
    /\ Len(incomingFiles) = 2
    /\ FileOf(1).name = "items full.csv"
    /\ response = [status |-> 400,
                   error |-> "menu.pdf is not a supported format (CSV, XLSX, XLS only)"]
    /\ NoSideEffects

\* the narrative could not be had: no API key, or the request failed
NarrativeFailed == aiCall \in {"no key", "caught"}

UnavailableSummaries ==
    {"AI analysis unavailable.", "AI analysis unavailable due to an upstream error."}

IsUnavailableAnalysis(a) ==
    a.summary \in UnavailableSummaries /\ a.insights = <<>> /\ a.actions = <<>>

\* after a failed narrative the analysis is the fixed unavailable result, the
\* request goes on to the insert, and a 200 response comes with the record of
\* the resolved KPIs and that analysis
NarrativeFailureKept ==
    NarrativeFailed =>
        /\ pc \in {"insert", "done"}
        /\ IsUnavailableAnalysis(analysis)
        /\ pc = "insert" => response.status = 0 /\ reports = <<>>
        /\ pc = "done" =>
              /\ response.status \in {200, 500}
              /\ response.status = 200 <=> Len(reports) = 1
              /\ response.status = 200 =>
                    /\ reports[1].agent = analysis
                    /\ reports[1].kpis = resolved.kpis
                    /\ reports[1].chart_data.availableKpis = resolved.kpis.available

\* the narrative step never ends the request, and the insert that follows a
\* failed narrative answers 200 exactly when it adds the record
NarrativeSteps ==
    /\ pc = "analyze" =>
          /\ pc' = "insert"
          /\ response' = response
          /\ UNCHANGED <<resolved, parsedDatasets, storage, reports>>
    /\ (pc = "insert" /\ NarrativeFailed) =>
          /\ pc' = "done"
          /\ UNCHANGED <<resolved, analysis, aiCall>>
          /\ \/ Len(reports') = 1 /\ response'.status = 200
             \/ reports' = reports /\ response' = GenericFailure

\* C18: a failed narrative call or a missing API key never aborts the upload:
\* the analysis is the fixed 'AI analysis unavailable' result with no insights
\* and no actions, the report is still inserted with the resolved KPIs, and
\* the response is 200 when the insert succeeds
C18_NarrativeFailureIsRecovered == []NarrativeFailureKept /\ [][NarrativeSteps]_vars

\* the narrative request failed and the report of the category file was
\* inserted all the same
C18_Witness ==
    /\ pc = "done"
    /\ aiCall = "caught"
    /\ response.status = 200
    /\ Len(reports) = 1
    /\ reports[1].agent.summary = "AI analysis unavailable due to an upstream error."
    /\ reports[1].kpis.netSales = Int2Num(800)
    /\ reports[1].kpis.available.netSales

\* the files of the catalog that cannot be parsed: the workbook cannot be
\* read, it has no row, or the header row found is empty
UnparsableInCatalog ==
    {f \in 1..Len(FileCatalog) :
        \/ ~FileCatalog[f].readable
        \/ Len(FileCatalog[f].rows) = 0
        \/ Len(FileCatalog[f].rows[detectHeaderRow(FileCatalog[f].rows)]) = 0}

\* the positions of the request's files that cannot be parsed
UnparsableFiles == {k \in 1..Len(incomingFiles) : incomingFiles[k] \in UnparsableInCatalog}

\* a request that passed validation and holds a file that cannot be parsed
HasUnparsableFile == FilesAcceptable /\ UnparsableFiles # {}

\* with a file that cannot be parsed in the batch, no file after the first
\* such file is read, parsed or stored, no narrative request is sent, no
\* record is inserted, and a response past validation is the generic 500
UnparsableFileEndsBatch ==
    HasUnparsableFile =>
        /\ filesRead <= FirstOf(UnparsableFiles)
        /\ fileIdx < FirstOf(UnparsableFiles)
        /\ Len(parsedDatasets) < FirstOf(UnparsableFiles)
        /\ \A key \in storage : key.uuid < FirstOf(UnparsableFiles)
        /\ aiCall = "none"
        /\ reports = <<>>
        /\ pc \in {"start", "validate", "files", "done"}
        /\ response.status \in {0, 400, 401, 500}
        /\ response.status = 500 => response = GenericFailure

\* the turn of the loop that meets the first file that cannot be parsed ends
\* the request with the generic 500, and keeps and stores nothing
UnparsableFileStep ==
    (HasUnparsableFile /\ pc = "files" /\ fileIdx + 1 = FirstOf(UnparsableFiles)) =>
        /\ pc' = "done"
        /\ response' = GenericFailure
        /\ filesRead' = filesRead + 1
        /\ UNCHANGED <<fileIdx, parsedDatasets, storage, aiCall, analysis, reports>>

\* C19: in a request of several files the first file that cannot be parsed
\* aborts the batch: no later file is read, parsed or stored, no narrative
\* request is sent, no record is inserted, and the response is the generic 500
C19_UnparsableFileAbortsBatch == []UnparsableFileEndsBatch /\ [][UnparsableFileStep]_vars

\* a sheet with an empty header row ahead of a good file: the request ended
\* at the first file, the second was never read
C19_Witness ==
    /\ pc = "done"
    /\ Len(incomingFiles) = 2
    /\ FileOf(1).name = "blank.csv"
    /\ FileOf(2).name = "items full.csv"
    /\ UnparsableFiles = {1}
    /\ filesRead = 1
    /\ storage = {}
    /\ parsedDatasets = <<>>
    /\ response = GenericFailure

\* at most one record; a 200 response exactly with one record; a 500 response
\* is the generic one
OneRecordPerRequest ==
    /\ Len(reports) <= 1
    /\ response.status = 200 <=> Len(reports) = 1
    /\ response.status = 200 => pc = "done"
    /\ response.status = 500 => response = GenericFailure /\ reports = <<>>

\* a record is added by the insert only, once, with the 200 response, and is
\* left as it is from then on; an insert that fails answers the generic 500
RecordSteps ==
    /\ reports # <<>> => reports' = reports
    /\ reports' # reports =>
          /\ pc = "insert"
          /\ reports = <<>>
          /\ Len(reports') = 1
          /\ response'.status = 200
    /\ pc = "insert" =>
          /\ pc' = "done"
          /\ reports' = reports => response' = GenericFailure

\* C20: a request inserts at most one report record and never updates it; it
\* returns 200 if and only if one record was inserted; an insert failure ends
\* the request with the generic 500 response
C20_RecordWrittenOnce == []OneRecordPerRequest /\ [][RecordSteps]_vars

\* a request of two files answered with 200 and one record
C20_Witness ==
    /\ pc = "done"
    /\ Len(incomingFiles) = 2
    /\ fileIdx = 2
    /\ response = [status |-> 200, error |-> ""]
    /\ Len(reports) = 1
    /\ Len(reports[1].chart_data.datasets) = 2

\* the non-empty trimmed lines of a completion (line 976)
CompletionLines(aiText) ==
    LET split == Split(aiText, "\n", "")
    IN SelectSeq([i \in 1..Len(split) |-> Trim(split[i])], IsNonEmpty)

\* the completions with no text or no non-empty line
EmptyCompletions == {aiText \in Completions : CompletionLines(aiText) = <<>>}

\* C21: when the narrative collaborator answers with an empty completion (no
\* text, or no non-empty line), the stored analysis is the explicit
\* 'unavailable' summary with no insights and no actions, never an empty
\* summary, and the request goes on
C21_EmptyCompletionIsUnavailable ==
    (aiCall = "ok" /\ \E aiText \in EmptyCompletions : analysis = ParseCompletion(aiText)) =>
        /\ IsUnavailableAnalysis(analysis)
        /\ analysis.summary # ""
        /\ pc \in {"insert", "done"}

-----------------------------------------------------------------------------
(* Properties of the samples (SpecSample) *)

\* the normalized rows of the meaningful rows of a sheet that have a field
\* which is not null, in row order
ValuedRows(indexByKey, dataRows) ==
    LET meaningful == SelectSeq(dataRows, isMeaningfulRow)
    IN SelectSeq([i \in 1..Len(meaningful) |-> NormalizeRow(indexByKey, meaningful[i])],
                 HasAnyValue)

FirstRows(rows) == SubSeq(rows, 1, Min(Len(rows), MAX_SAMPLE_ROWS))

HasNetSales(r) == ~IsNull(r.net_sales)

\* the sum of a numeric field over the entries lo..hi of a sequence
RECURSIVE SumRange(_, _, _, _)
SumRange(entries, field, lo, hi) ==
    IF lo > hi THEN Zero
    ELSE IF lo = hi THEN entries[lo][field]
    ELSE JsAdd(SumRange(entries, field, lo, (lo + hi) \div 2),
               SumRange(entries, field, (lo + hi) \div 2 + 1, hi))

\* the net sales of every row of a sequence that has net sales
NetSalesOfRows(rows) ==
    SumRange(SelectSeq(rows, HasNetSales), "net_sales", 1, Len(SelectSeq(rows, HasNetSales)))

\* the samples of the files at the given positions, one after the other
RECURSIVE SamplesOfFiles(_, _)
SamplesOfFiles(files, k) ==
    IF k = 0 THEN <<>>
    ELSE SamplesOfFiles(files, k - 1) \o parsedDatasets[files[k]].normalizedSample

\* C22: a file's normalized sample holds at most MAX_SAMPLE_ROWS rows, the
\* first meaningful rows with a field that is not null, in row order; the rows
\* past the cap are dropped without error and still counted in the sums; a
\* group's sample holds at most MAX_SAMPLE_ROWS rows taken from its files'
\* samples in the order of the files
C22_SamplesAreCapped ==
    /\ SheetParsed =>
          LET valued == ValuedRows(parsed.indexByKey, sheet.dataRows)
          IN /\ Len(parsed.normalizedSample) <= MAX_SAMPLE_ROWS
             /\ parsed.normalizedSample = FirstRows(valued)
             /\ parsed.rowCount = Len(sheet.dataRows)
             /\ parsed.metrics.netSales = NetSalesOfRows(valued)
    /\ SheetResolved =>
          \A g \in 1..Len(resolved.combinedByType) :
              LET group == resolved.combinedByType[g]
              IN /\ Len(group.sampleRows) <= MAX_SAMPLE_ROWS
                 /\ group.sampleRows =
                       FirstRows(SamplesOfFiles(group.files, Len(group.files)))

\* a sheet of two rows more than the cap, its sample cut at the cap and its
\* sum over all the rows, combined after a file of half the cap: the group's
\* sample is filled with the first rows of the sheet
C22_Witness ==
    /\ SheetResolved
    /\ Len(sheet.dataRows) = MAX_SAMPLE_ROWS + 2
    /\ Len(ValuedRows(parsed.indexByKey, sheet.dataRows)) = MAX_SAMPLE_ROWS + 2
    /\ Len(parsed.normalizedSample) = MAX_SAMPLE_ROWS
    /\ parsed.normalizedSample[MAX_SAMPLE_ROWS].net_sales = Int2Num(MAX_SAMPLE_ROWS)
    /\ parsed.metrics.netSales = Int2Num(1378)
    /\ Len(resolved.combinedByType) = 1
    /\ resolved.combinedByType[1].files = <<1, 2>>
    /\ Len(parsedDatasets[1].normalizedSample) = MAX_SAMPLE_ROWS \div 2
    /\ Len(resolved.combinedByType[1].sampleRows) = MAX_SAMPLE_ROWS
    /\ resolved.combinedByType[1].sampleRows[MAX_SAMPLE_ROWS] =
          parsed.normalizedSample[MAX_SAMPLE_ROWS \div 2]

-----------------------------------------------------------------------------
(* Properties of the header row (SpecHeader) *)

HeaderFound == pc \in {"sheet", "parsed", "failed"}

\* the rows detectHeaderRow looks at, counted from 1
ScannedRows == 1..Min(Len(sheetRows), HEADER_SCAN_LIMIT)

\* the number of keywords that are part of at least one normalized cell
KeywordsIn(row) ==
    Cardinality({k \in 1..Len(HEADER_HINTS) :
                    \E c \in 1..Len(row) : Includes(normalizeHeader(row[c]), HEADER_HINTS[k])})

\* the number of pairs of a cell and a keyword that is part of it
KeywordHits(row) ==
    Cardinality({<<c, k>> \in (1..Len(row)) \X (1..Len(HEADER_HINTS)) :
                    Includes(normalizeHeader(row[c]), HEADER_HINTS[k])})

\* C23: detectHeaderRow returns, among the first 25 rows, the lowest-index row
\* with the highest score, the score of a row being the number of keywords of
\* HEADER_HINTS that are part of at least one of its normalized cells; no row
\* past the 25th is chosen
C23_HeaderRowByKeywords ==
    HeaderFound =>
        /\ headerRow \in ScannedRows
        /\ \A i \in ScannedRows : KeywordsIn(sheetRows[i]) <= KeywordsIn(sheetRows[headerRow])
        /\ \A i \in ScannedRows :
              i < headerRow => KeywordsIn(sheetRows[i]) < KeywordsIn(sheetRows[headerRow])

\* the same with every cell counted for each keyword it holds
HeaderRowByHits ==
    HeaderFound =>
        /\ headerRow \in ScannedRows
        /\ \A i \in ScannedRows : KeywordHits(sheetRows[i]) <= KeywordHits(sheetRows[headerRow])
        /\ \A i \in ScannedRows :
              i < headerRow => KeywordHits(sheetRows[i]) < KeywordHits(sheetRows[headerRow])

-----------------------------------------------------------------------------
(* Properties of parseNumeric (SpecRows) *)

\* C24: parseNumeric returns null for every input that is not a finite
\* number (a native NaN or infinity, an empty text, a text that does not
\* parse to a finite number), so that no sum of a file is non-finite
C24_ParseNumericIsFinite ==
    SheetParsed =>
        /\ \A i \in 1..Len(sheet.dataRows) :
              \A c \in 1..Len(sheet.dataRows[i]) :
                  \/ IsNull(parseNumeric(sheet.dataRows[i][c]))
                  \/ IsFinite(parseNumeric(sheet.dataRows[i][c]))
        /\ IsFinite(parsed.metrics.netSales)
        /\ \A i \in 1..Len(parsed.metrics.daily) : IsFinite(parsed.metrics.daily[i].netSales)
        /\ \A i \in 1..Len(parsed.metrics.categories) : IsFinite(parsed.metrics.categories[i].value)

-----------------------------------------------------------------------------
(* Properties of the binding of roles to columns (SpecClassify) *)

\* the lowest member of a non-empty set of column positions
Leftmost(columns) == CHOOSE i \in columns : \A j \in columns : i <= j

\* the columns a binding has given a role
BoundColumns(binding) == {binding[key] : key \in CanonicalKeys} \ {0}

\* the stated pattern pass over the first k rules: each rule binds its role to
\* the leftmost column that has no role yet, is not gross and matches one of
\* the rule's patterns; 0 stands for no column
RECURSIVE StatedPatternPass(_, _)
StatedPatternPass(meta, k) ==
    IF k = 0 THEN [key \in CanonicalKeys |-> 0]
    ELSE LET before == StatedPatternPass(meta, k - 1)
             rule == HEADER_RULES[k]
             candidates ==
                {i \in 1..Len(meta) :
                    /\ i \notin BoundColumns(before)
                    /\ rule.allowGross \/ ~meta[i].isGross
                    /\ RuleMatches(rule, meta[i].normalized)}
         IN IF candidates = {} THEN before
            ELSE [before EXCEPT ![rule.key] = Leftmost(candidates)]

\* the stated fallback: when no column has net_sales, the leftmost column
\* without a role that is not gross, holds "sales" and none of the excluded
\* words takes it
StatedFallback(meta, binding) ==
    LET candidates ==
            {i \in 1..Len(meta) :
                /\ i \notin BoundColumns(binding)
                /\ ~meta[i].isGross
                /\ Includes(meta[i].normalized, "sales")
                /\ ~\E w \in {"tax", "discount", "void", "refund", "credit"} :
                       Includes(meta[i].normalized, w)}
    IN IF binding["net_sales"] # 0 \/ candidates = {} THEN binding
       ELSE [binding EXCEPT !["net_sales"] = Leftmost(candidates)]

StatedBinding(headers) ==
    StatedFallback(buildColumnMeta(headers),
                   StatedPatternPass(buildColumnMeta(headers), Len(HEADER_RULES)))

\* C25: the binding of roles to columns the parser uses is the one of the
\* stated algorithm: each rule, in the order of HEADER_RULES, binds its role to
\* the leftmost unassigned non-gross column that matches and to no other, so
\* that a further matching column stays free for the later rules
C25_BindingIsFirstMatch ==
    Parsed => parsed.indexByKey = StatedBinding(sheet.headers)

\* the columns after the pattern pass of lines 313-322
AfterPatternPass == ApplyRules(buildColumnMeta(sheet.headers), Len(HEADER_RULES))

\* the columns the stated fallback may take: no role yet, not gross, "sales"
\* in the header and none of the excluded words
FallbackColumns(before) ==
    {i \in 1..Len(before) :
        /\ before[i].canonical = NoKey
        /\ ~before[i].isGross
        /\ Includes(before[i].normalized, "sales")
        /\ ~\E w \in {"tax", "discount", "void", "refund", "credit"} :
               Includes(before[i].normalized, w)}

FoundNetSales(before) == \E i \in 1..Len(before) : before[i].canonical = "net_sales"

\* what the stated fallback makes of the columns the pattern pass left, given
\* the columns it may take
FallbackGives(before, columns, after, indexByKey) ==
    /\ Len(after) = Len(before)
    /\ \A i \in 1..Len(before) : before[i].canonical # NoKey => after[i] = before[i]
    /\ (FoundNetSales(before) \/ columns = {}) => after = before
    /\ (~FoundNetSales(before) /\ columns # {}) =>
          /\ after = [before EXCEPT ![Leftmost(columns)].canonical = "net_sales"]
          /\ indexByKey["net_sales"] = Leftmost(columns)

FallbackKept(before, after, indexByKey) ==
    FallbackGives(before, FallbackColumns(before), after, indexByKey)

\* C26: the fallback acts only when the pattern pass gave net_sales to no
\* column; it then gives net_sales to the leftmost column that has no role, is
\* not gross, holds "sales" and none of tax, discount, void, refund, credit;
\* it changes no column that has a role and no net_sales binding
C26_FallbackOnlyWithoutNetSales ==
    Parsed => FallbackKept(AfterPatternPass, parsed.headerMeta, parsed.indexByKey)

\* gross sales, sales tax and sales: the pattern pass gives no role, the
\* fallback gives net_sales to the third column, and the sum is the third
\* column's
C26_Witness ==
    /\ Parsed
    /\ Len(sheet.headers) = 3
    /\ sheet.headers[1].s = "Gross Sales"
    /\ sheet.headers[2].s = "Sales Tax"
    /\ sheet.headers[3].s = "Sales"
    /\ parsed.presentKeys = {"net_sales"}
    /\ parsed.indexByKey["net_sales"] = 3
    /\ parsed.headerMeta[1].canonical = NoKey
    /\ parsed.headerMeta[2].canonical = NoKey
    /\ parsed.metrics.netSales = Int2Num(30)
    /\ ~FoundNetSales(AfterPatternPass)

-----------------------------------------------------------------------------
(* Properties of the frame of combineDatasets (SpecCombine) *)

Combined == pc = "resolved"

\* every object of the files has, on the heap, the value parseDataset gave it
FileObjectsKept(objects, files) ==
    \A i \in 1..Len(files) :
        /\ MapHas(objects, files[i].key)
        /\ HeapGet(objects, files[i].key) = files[i].value

\* the daily Map of a group on the heap, with the totals its objects hold
DailyOnHeap(type) ==
    [i \in 1..Len(HeapGet(heap, GroupObj(type, "daily"))) |->
        [key |-> HeapGet(heap, GroupObj(type, "daily"))[i].key,
         netSales |-> HeapGet(heap, HeapGet(heap, GroupObj(type, "daily"))[i].ref).netSales,
         guests |-> HeapGet(heap, HeapGet(heap, GroupObj(type, "daily"))[i].ref).guests,
         tips |-> HeapGet(heap, HeapGet(heap, GroupObj(type, "daily"))[i].ref).tips]]

\* the objects of the files are as parseDataset left them, before and after
\* the combination, and the objects of each group hold the group's result
FilesLeftUnchanged ==
    /\ FileObjectsKept(heap, FileHeap(parsedDatasets, Len(parsedDatasets)))
    /\ parsedDatasets = StoredDatasets(incomingFiles)
    /\ Combined =>
          \A g \in 1..Len(resolved.combinedByType) :
              LET group == resolved.combinedByType[g]
              IN /\ DailyOnHeap(group.datasetType) = group.metrics.daily
                 /\ HeapGet(heap, GroupObj(group.datasetType, "categories"))
                       = group.metrics.categories
                 /\ HeapGet(heap, GroupObj(group.datasetType, "keys")) = group.keys
                 /\ HeapGet(heap, GroupObj(group.datasetType, "sampleRows")) = group.sampleRows
                 /\ HeapGet(heap, GroupObj(group.datasetType, "laborPercentSamples"))
                       = group.metrics.laborPercentSamples

\* a step writes to no object that was there before it, and to no file result
CombineWritesOwnObjects ==
    /\ parsedDatasets' = parsedDatasets
    /\ FileObjectsKept(heap', heap)

\* C27: combineDatasets leaves every file's result as it was: the sums, the
\* labor-percent samples, the category map, the daily map with its per-date
\* totals objects, the present-key set and the sample list of each file are
\* the same after a group was combined, and what is written to the combined
\* maps is written to no per-file object
C27_CombineLeavesFilesUnchanged == []FilesLeftUnchanged /\ [][CombineWritesOwnObjects]_vars

\* two daily files with a date in common, combined: the group's totals for the
\* date are the sum of the files', held by an object of the group's own
C27_Witness ==
    /\ Combined
    /\ Len(parsedDatasets) = 2
    /\ Len(resolved.combinedByType) = 1
    /\ \E i \in 1..Len(parsedDatasets[1].metrics.daily) :
          \E j \in 1..Len(parsedDatasets[2].metrics.daily) :
              LET first == parsedDatasets[1].metrics.daily[i]
                  second == parsedDatasets[2].metrics.daily[j]
                  type == resolved.combinedByType[1].datasetType
              IN /\ first.key = second.key
                 /\ first.netSales # Zero
                 /\ second.netSales # Zero
                 /\ HeapGet(heap, GroupObj(type, TotalsPart(first.key))).netSales
                       = JsAdd(first.netSales, second.netSales)
                 /\ HeapGet(heap, FileObj(1, TotalsPart(first.key))).netSales = first.netSales
                 /\ HeapGet(heap, FileObj(2, TotalsPart(first.key))).netSales = second.netSales

-----------------------------------------------------------------------------
(***************************************************************************)
(* Requests in flight together.  The module keeps no variable between      *)
(* requests (lines 94-211 are constants, the regular expressions of        *)
(* HEADER_RULES carry no g flag), so what two requests share is the        *)
(* pulse-data bucket and the pulse_reports table.  SpecConcurrent starts   *)
(* each request at its per-file loop, validation passed, and leaves the    *)
(* failures of the collaborators to Spec: here an upload fails only when   *)
(* its key is taken, which is what upsert: false makes of it.              *)
(***************************************************************************)
Requests == {"A", "B"}

\* the files the requests draw from: two that parse, one that cannot be read
SharedFiles ==
    {f \in 1..Len(FileCatalog) :
        FileCatalog[f].name \in {"daily.xlsx", "items full.csv", "broken.xls"}}

SharedBatches == UNION {[1..n -> SharedFiles] : n \in 1..MaxFiles}

NewRequest(batch) ==
    [pc |-> "files", incomingFiles |-> batch, fileIdx |-> 0, parsedDatasets |-> <<>>,
     resolved |-> <<>>, response |-> 0]

\* crypto.randomUUID() of request r for its k-th file: a value no other call
\* returns
RandomUUID(r, k) == <<r, k>>

\* the narrative left at its default: no API key (lines 941-947)
DefaultAnalysis ==
    [summary |-> "AI analysis unavailable.", insights |-> <<>>, actions |-> <<>>]

InitConcurrent ==
    /\ pc = "concurrent"
    /\ requests \in {[r \in Requests |-> NewRequest(batches[r])] :
                       batches \in [Requests -> SharedBatches]}
    /\ sheet = NoSheet
    /\ parsed = NoParsed
    /\ NoRows
    /\ NoHeap
    /\ HandlerIdle

\* lines 693-736, one turn of the loop of request r
UploadFile(r) ==
    LET q == requests[r]
        k == q.fileIdx + 1
        file == FileCatalog[q.incomingFiles[k]]
        read == ReadCatalog[q.incomingFiles[k]]
        storageFileName == StorageFileName(RandomUUID(r, k), file.name)
    IN /\ q.pc = "files"
       /\ IF read.error # "" \/ storageFileName \in storage
          THEN /\ requests' = [requests EXCEPT ![r].pc = "done",
                                               ![r].response = GenericFailure]
               /\ storage' = storage
          ELSE /\ storage' = storage \cup {storageFileName}
               /\ requests' =
                     [requests EXCEPT
                         ![r].parsedDatasets =
                             Append(q.parsedDatasets,
                                    WithStorage(read.parsed, storageFileName,
                                                IF file.type = ""
                                                THEN "application/octet-stream"
                                                ELSE file.type)),
                         ![r].fileIdx = k,
                         ![r].pc = IF k = Len(q.incomingFiles) THEN "resolve" ELSE "files"]
       /\ UNCHANGED <<pc, sheetRows, headerRow, heap, sheet, parsed, incomingFiles,
                      fileIdx, parsedDatasets, filesRead, aiCall, resolved, analysis,
                      reports, response>>

\* lines 738-992 of request r
ResolveRequest(r) ==
    /\ requests[r].pc = "resolve"
    /\ requests' = [requests EXCEPT ![r].resolved = ResolveKpis(requests[r].parsedDatasets),
                                    ![r].pc = "insert"]
    /\ UNCHANGED <<pc, sheetRows, headerRow, heap, sheet, parsed, incomingFiles,
                   fileIdx, parsedDatasets, storage, filesRead, aiCall, resolved,
                   analysis, reports, response>>

\* lines 1012-1047 of request r
InsertRequest(r) ==
    /\ requests[r].pc = "insert"
    /\ reports' = Append(reports,
                         ReportRecord(requests[r].parsedDatasets, requests[r].resolved,
                                      DefaultAnalysis, ""))
    /\ requests' = [requests EXCEPT ![r].response = Respond(200, ""), ![r].pc = "done"]
    /\ UNCHANGED <<pc, sheetRows, headerRow, heap, sheet, parsed, incomingFiles,
                   fileIdx, parsedDatasets, storage, filesRead, aiCall, resolved,
                   analysis, response>>

UploadStep == \E r \in Requests : UploadFile(r)
ResolveStep == \E r \in Requests : ResolveRequest(r)
InsertStep == \E r \in Requests : InsertRequest(r)

NextConcurrent ==
    \/ UploadStep
    \/ ResolveStep
    \/ InsertStep

SpecConcurrent == InitConcurrent /\ [][NextConcurrent]_vars

\* what request r does on its own, no other request being served
CannotBeRead(batch) == \E k \in 1..Len(batch) : ReadCatalog[batch[k]].error # ""

DatasetsAlone(r, batch) ==
    [k \in 1..Len(batch) |->
        WithStorage(ReadCatalog[batch[k]].parsed,
                    StorageFileName(RandomUUID(r, k), FileCatalog[batch[k]].name),
                    IF FileCatalog[batch[k]].type = "" THEN "application/octet-stream"
                    ELSE FileCatalog[batch[k]].type)]

RecordAlone(datasets) ==
    ReportRecord(datasets, ResolveKpis(datasets), DefaultAnalysis, "")

RecordsOf(r) ==
    {i \in 1..Len(reports) : reports[i].file_url.uuid[1] = r}

SameAsAlone(q, r) ==
    IF CannotBeRead(q.incomingFiles)
    THEN /\ q.response = GenericFailure
         /\ RecordsOf(r) = {}
    ELSE /\ q.response = Respond(200, "")
         /\ q.parsedDatasets = DatasetsAlone(r, q.incomingFiles)
         /\ q.resolved.kpis = ResolveKpis(q.parsedDatasets).kpis
         /\ \E i \in 1..Len(reports) :
               /\ RecordsOf(r) = {i}
               /\ reports[i] = RecordAlone(q.parsedDatasets)

UploadsOf(r) == {requests[r].parsedDatasets[k].storageFileName :
                    k \in 1..Len(requests[r].parsedDatasets)}

\* every dataset kept by a request has a storage object of its own
DistinctStorageKeys ==
    /\ storage = UNION {UploadsOf(r) : r \in Requests}
    /\ \A r \in Requests :
          /\ Cardinality(UploadsOf(r)) = Len(requests[r].parsedDatasets)
          /\ \A other \in Requests \ {r} : UploadsOf(r) \cap UploadsOf(other) = {}

RequestsDoNotInterfere ==
    /\ DistinctStorageKeys
    /\ \A r \in Requests : requests[r].pc = "done" => SameAsAlone(requests[r], r)

\* a step is the step of one request; it removes no object and no record
StepOfOneRequest ==
    /\ storage \subseteq storage'
    /\ Len(reports) <= Len(reports')
    /\ SubSeq(reports', 1, Len(reports)) = reports
    /\ \E r \in Requests : \A other \in Requests \ {r} : requests'[other] = requests[other]

\* C28: requests served together do not interfere: the uploads of the same or
\* of different requests take distinct storage keys, so that no
\* non-upserting upload fails or overwrites because of another, and a request
\* ends with the response, the KPIs and the record it ends with when it is
\* served alone, whatever the interleaving
C28_ConcurrentRequestsDoNotInterfere ==
    []RequestsDoNotInterfere /\ [][StepOfOneRequest]_vars

\* request B was served from its first file to its record while request A,
\* which had uploaded a file of the same name, was still in its loop
C28_Witness ==
    /\ pc = "concurrent"
    /\ requests["A"].pc = "files"
    /\ requests["A"].fileIdx = 1
    /\ requests["B"].pc = "done"
    /\ requests["B"].response = Respond(200, "")
    /\ Len(reports) = 1
    /\ \E a \in UploadsOf("A"), b \in UploadsOf("B") : a.name = b.name /\ a # b

\* the files of the catalog whose rows can be read and whose header row, as
\* detectHeaderRow finds it, has a cell
HeaderInCatalog ==
    [f \in 1..Len(FileCatalog) |->
        /\ FileCatalog[f].readable
        /\ Len(FileCatalog[f].rows) > 0
        /\ Len(FileCatalog[f].rows[detectHeaderRow(FileCatalog[f].rows)]) > 0]

\* the sanitized name of each file of the catalog
SanitizedInCatalog ==
    [f \in 1..Len(FileCatalog) |-> SanitizeFileName(FileCatalog[f].name)]

\* the storage key of the k-th file of the request
KeyOfFile(k) == [uuid |-> k, name |-> SanitizedInCatalog[incomingFiles[k]]]

\* the object under a key is the k-th file of the request: the loop has gone
\* past it, its rows were read and have a header row, and its parsed dataset
\* is kept with the key
WrittenAfterParsing(key) ==
    \E k \in 1..fileIdx :
        /\ key = KeyOfFile(k)
        /\ filesRead >= k
        /\ HeaderInCatalog[incomingFiles[k]]
        /\ Len(parsedDatasets) >= k
        /\ parsedDatasets[k].storageFileName = key
        /\ parsedDatasets[k].fileName = FileOf(k).name
        /\ parsedDatasets[k].rowCount = ReadCatalog[incomingFiles[k]].parsed.rowCount

UploadsAreOfParsedFiles ==
    /\ \A key \in storage : WrittenAfterParsing(key)
    /\ \A k \in 1..Len(parsedDatasets) : parsedDatasets[k].storageFileName \in storage
    /\ response.status = 500 => reports = <<>>
    /\ \A i \in 1..Len(reports) : response.status = 200

\* a step deletes no object, and writes at most the object of the file the
\* loop is at, in the turn that reads it
UploadSteps ==
    /\ storage \subseteq storage'
    /\ storage' # storage =>
          /\ pc = "files"
          /\ storage' = storage \cup {KeyOfFile(fileIdx + 1)}
          /\ filesRead' = filesRead + 1
          /\ fileIdx' = fileIdx + 1

\* C29: within a request a file is written to storage only after it has been
\* read, its header row found non-empty and the file parsed, and the handler
\* deletes no object: after a 500 response every object uploaded before the
\* failure is still in storage and no report record references it
C29_UploadAfterParsingAndKept == []UploadsAreOfParsedFiles /\ [][UploadSteps]_vars

\* the first file of two was uploaded, the request then failed at the second
\* file: the object of the first is in storage without a record
C29_Witness ==
    /\ pc = "done"
    /\ response = GenericFailure
    /\ Len(incomingFiles) = 2
    /\ fileIdx = 1
    /\ storage = {parsedDatasets[1].storageFileName}
    /\ reports = <<>>

-----------------------------------------------------------------------------
(***************************************************************************)
(* The source of the daily series: a sheet of each key set, sent alone or  *)
(* after a file of the catalog.                                            *)
(***************************************************************************)

\* the file sent before the sheet: none (0), or one with dates typed
\* daily_sales, one typed item_sales, one typed general_sales
DailyCompanions ==
    {0} \cup {f \in 1..Len(FileCatalog) :
                 FileCatalog[f].name \in {"daily.xlsx", "items full.csv", "general.csv"}}

InitDaily ==
    /\ pc = "sheet"
    /\ sheet \in TypeSheets
    /\ parsed = NoParsed
    /\ HandlerIdle
    /\ NoRows
    /\ NoHeap
    /\ NoRequests

\* lines 730-868 for a request of the companion file, if any, and the sheet
ResolveBatch ==
    /\ pc = "parsed"
    /\ \E f \in DailyCompanions :
          parsedDatasets' =
             IF f = 0
             THEN <<WithStorage(parsed, StorageFileName(1, parsed.fileName), "text/csv")>>
             ELSE <<WithStorage(ReadCatalog[f].parsed,
                                StorageFileName(1, FileCatalog[f].name), FileCatalog[f].type),
                    WithStorage(parsed, StorageFileName(2, parsed.fileName), "text/csv")>>
    /\ resolved' = ResolveKpis(parsedDatasets')
    /\ pc' = "resolved"
    /\ UNCHANGED <<requests, sheetRows, headerRow, heap, sheet,
                   parsed, incomingFiles, fileIdx, storage, filesRead, aiCall,
                   analysis, reports, response>>

NextDaily ==
    \/ ParseSheet
    \/ ResolveBatch

SpecDaily == InitDaily /\ [][NextDaily]_vars

\* the key sets detectDatasetType types general_sales
GeneralSalesKeySets ==
    {keys \in SUBSET CanonicalKeys : detectDatasetType(keys) = "general_sales"}

\* the types of the stated order whose group is there and has the date key
DatedGroups(combinedByType) ==
    SelectSeq(<<"daily_sales", "item_sales", "general_sales">>,
              LAMBDA type : /\ MapHas(combinedByType, type)
                            /\ "date" \in DatasetOf(combinedByType, type).keys)

DatesOf(series) == {series[i].date : i \in 1..Len(series)}

\* the series are those of the daily map of group source, dates ascending
SeriesDrawnFrom(values, source) ==
    LET daily == DatasetOf(values.combinedByType, source).metrics.daily
    IN /\ Len(values.dailySalesData) = Len(daily)
       /\ DatesOf(values.dailySalesData) = {daily[i].key : i \in 1..Len(daily)}
       /\ \A i \in 1..Len(values.dailySalesData) :
             /\ \A j \in 1..(i - 1) :
                   StringLess(values.dailySalesData[j].date, values.dailySalesData[i].date)
             /\ \E e \in 1..Len(daily) :
                   /\ daily[e].key = values.dailySalesData[i].date
                   /\ values.dailySalesData[i].sales =
                         NumberOf(formatNumber(daily[e].netSales, 2))
       /\ DatesOf(values.ppaTrendData) =
             {daily[i].key : i \in {e \in 1..Len(daily) : ~JsLeZero(daily[e].guests)}}
       /\ Len(values.ppaTrendData) = Cardinality(DatesOf(values.ppaTrendData))

NoDailySeries(values) ==
    /\ values.dailySalesData = <<>>
    /\ values.ppaTrendData = <<>>
    /\ ~values.availableCharts.dailySales

DatedOnlyInOtherTypes(datasets) ==
    \A k \in 1..Len(datasets) :
        "date" \in datasets[k].presentKeys
            => datasets[k].datasetType \in {"category_rollup", "labor", "tips"}

DailySeriesSource(values, datasets) ==
    /\ IF DatedGroups(values.combinedByType) = <<>>
       THEN NoDailySeries(values)
       ELSE SeriesDrawnFrom(values, DatedGroups(values.combinedByType)[1])
    /\ \A g \in 1..Len(values.combinedByType) :
          values.combinedByType[g].key = "general_sales"
             => values.combinedByType[g].keys \cap {"date", "category", "item"} = {}
    /\ DatedOnlyInOtherTypes(datasets) => NoDailySeries(values)

\* C30: the daily sales and PPA trend series are drawn only from the first
\* group, in the order daily_sales, item_sales, general_sales, that has the
\* date key; a general_sales group never has the date, category or item key;
\* a batch whose dated files are all typed category_rollup, labor or tips has
\* both series empty and availableCharts.dailySales false
C30_DailySeriesSource ==
    /\ \A keys \in GeneralSalesKeySets : keys \cap {"date", "category", "item"} = {}
    /\ pc = "resolved" => DailySeriesSource(resolved, parsedDatasets)

\* a dated tips sheet sent after a general_sales file: the general_sales
\* group is there, without a date, and no series is drawn
C30_Witness ==
    /\ pc = "resolved"
    /\ Len(parsedDatasets) = 2
    /\ parsed.datasetType = "tips"
    /\ "date" \in parsed.presentKeys
    /\ parsed.metrics.daily # <<>>
    /\ MapHas(resolved.combinedByType, "general_sales")
    /\ NoDailySeries(resolved)

====
